---- MODULE Spec2Model ----
(***************************************************************************)
(* State-machine model of the docmcp backend: the document tree of a      *)
(* project (REST document routes), the template library, API tokens and   *)
(* the JSON-RPC agent endpoint (MCP routes).  Every action is one request *)
(* handler run inside one database transaction (app/database.py get_db):  *)
(* a handler that raises leaves the stored data as it was.                *)
(***************************************************************************)
EXTENDS Integers, Sequences, FiniteSets, TLC

\* ------------------------------------------------------------------ bounds
MaxDocs == 6
MaxTreeDocs == 2
MaxTemplates == 3
MaxTokens == 2
MaxAgentDocs == 2
MaxLibTemplates == 2
MaxMarkdownLen == 3
MaxInvitations == 3
MaxSessions == 2
MaxCrossDocs == 3

\* ------------------------------------------------------------ fixed tables
NULL == 0

Users == {"u1", "u2"}
TeamIds == {"t1", "t2"}

\* a document id that parses as a UUID but is never stored, and a string
\* that is not a UUID at all
UnknownDocId == MaxDocs + 1
BadUuid == -1

VARIABLES
    projects,      \* project id -> owning team id (table "projects")
    members,       \* set of [user, team, role] rows (table "user_team")
    invitations,   \* invitation id -> row of table "team_invitations"
    docs,          \* document id -> row of table "documents"
    nextDoc,       \* number of document rows ever inserted, plus one
    templates,     \* template id -> row of table "templates"
    nextTemplate,  \* number of template rows ever inserted, plus one
    categories,    \* names of the rows of table "categories"
    tokens,        \* token id -> row of table "api_tokens"
    nextToken,     \* number of token rows ever inserted, plus one
    sessions,      \* request in flight -> its database session (AsyncSession)
    resp           \* the last request handled and the response it got

vars == <<projects, members, invitations, docs, nextDoc, templates,
          nextTemplate, categories, tokens, nextToken, sessions, resp>>

userVars == <<projects, members, invitations>>
docVars == <<docs, nextDoc>>
libVars == <<templates, nextTemplate, categories>>
tokenVars == <<tokens, nextToken>>

\* ---------------------------------------------------------------- helpers
Range(s) == {s[i] : i \in DOMAIN s}

\* User.teams
teams(u) == {m.team : m \in {x \in members : x.user = u}}

\* Team.is_admin
is_admin(t, u) == \E m \in members : m.user = u /\ m.team = t /\ m.role = "administrator"

\* the last exchange: the operation, what its request named (and, for a
\* delete, how many rows the transaction deleted), the HTTP status and the
\* detail of the answer
Response(op, info, status, detail) ==
    [op |-> op, info |-> info, status |-> status, detail |-> detail]

NoResponse == Response("none", [x |-> 0], 0, "")

\* --------------------------------------------------------- document content
\* A markdown string is a sequence of tokens: a plain character
\* ("txt", 0 is a letter, 1 is the digit 1), a well-formed embedded base64
\* image tag ("img", i) for image record i, or the text "[image:n]"
\* ("ph", n).
Txt(c) == [t |-> "txt", v |-> c]
Img(i) == [t |-> "img", v |-> i]
Ph(n) == [t |-> "ph", v |-> n]

\* the tag of image record i written loosely: several blanks before the
\* title, or an empty title ""; IMAGE_PATTERN matches it like Img(i)
ImgLoose(i) == [t |-> "img", v |-> -i]

\* stored content: the JSON object {key: val, "images": images}; an empty
\* images sequence stands for an object without the "images" member
Content(key, val, images) == [key |-> key, val |-> val, images |-> images]

DefaultContent == Content("markdown", <<Txt(0)>>, <<>>)

\* stored content that is not a JSON object (the schemas accept any string
\* as content and the routes store a string as it is): the text of a JSON
\* string literal nested q deep, as json.dumps applied q times to a word
\* gives it; q = 0 is the bare word, which json.loads rejects
JsonText(q) == [key |-> "", val |-> q, images |-> <<>>]

\* json.loads succeeds on a string of digits (a JSON number) and fails on
\* the empty string, on letters, image tags and placeholders
IsJson(s) == Len(s) > 0 /\ \A i \in 1..Len(s) : s[i] = Txt(1)

\* Document(...) row; order and editable_by_agent default to 0 and False
Document(name, project_id, type, content, parent_id, order, editable) ==
    [name |-> name, project_id |-> project_id, type |-> type,
     content |-> content, parent_id |-> parent_id, order |-> order,
     editable_by_agent |-> editable]

\* ------------------------------------------------------------- tree store
\* Document.children / Template.children: rows whose parent_id is n
children(tbl, n) == {c \in DOMAIN tbl : tbl[c].parent_id = n}

\* rows reachable from n through children, n included (the ORM's delete
\* cascade "all, delete-orphan" follows children transitively)
RECURSIVE Closure(_, _, _)
Closure(tbl, frontier, seen) ==
    LET new == (UNION {children(tbl, n) : n \in frontier}) \ seen
    IN IF new = {} THEN seen ELSE Closure(tbl, new, seen \cup new)

Subtree(tbl, n) == Closure(tbl, {n}, {n})

\* proper descendants of n
Descendants(tbl, n) == Closure(tbl, {n}, {})

\* n is on a parent cycle reachable downwards from root
HasCycleBelow(tbl, root) == \E n \in Subtree(tbl, root) : n \in Descendants(tbl, n)

\* following parent_id from n for at most k steps ends at a root
RECURSIVE ReachesRoot(_, _, _)
ReachesRoot(tbl, n, k) ==
    IF tbl[n].parent_id = NULL THEN TRUE
    ELSE IF k = 0 \/ tbl[n].parent_id \notin DOMAIN tbl THEN FALSE
    ELSE ReachesRoot(tbl, tbl[n].parent_id, k - 1)

\* Document.is_archived: no route ever sets archived, so the recursion climbs
\* from parent to parent up to a root and answers False; on a parent cycle
\* it never reaches one and ends in a RecursionError
is_archived(tbl, n) ==
    IF ReachesRoot(tbl, n, Cardinality(DOMAIN tbl)) THEN "False" ELSE "RecursionError"

\* ------------------------------------------------- REST: document routes
\* get_db: the handler's transaction; an HTTPException raised by the handler
\* rolls back whatever the handler had staged
Reject(op, req, status, detail) ==
    /\ resp' = Response(op, req, status, detail)
    /\ UNCHANGED <<userVars, docVars, libVars, tokenVars, sessions>>

\* the project lookup and team check every document route starts with:
\* 0 when the request may proceed, else the HTTP status
ProjectGate(u, p) ==
    IF p \notin DOMAIN projects THEN 404
    ELSE IF projects[p] \notin teams(u) THEN 403
    ELSE 0

GateDetail(status) ==
    IF status = 404 THEN "Project not found" ELSE "Not a member of this project's team"

\* DocumentSchema.model_validate(document), which builds the answer after
\* the commit: it calls document.is_archived(), and an exception there
\* makes the answer a 500 while the committed rows stay
Serialized(op, req, status, tbl, n) ==
    IF is_archived(tbl, n) = "RecursionError"
    THEN Response(op, req, 500, "RecursionError")
    ELSE Response(op, req, status, "")

\* POST /api/v1/projects/{project_id}/documents/
create_document(u, p, payload) ==
    LET req == [project_id |-> p, parent_id |-> payload.parent_id]
        gate == ProjectGate(u, p)
    IN IF gate # 0 THEN Reject("create_document", req, gate, GateDetail(gate))
       ELSE IF /\ payload.parent_id # NULL
               /\ (\/ payload.parent_id \notin DOMAIN docs
                   \/ docs[payload.parent_id].project_id # p)
       THEN Reject("create_document", req, 404, "Parent document not found")
       ELSE /\ nextDoc <= MaxDocs
            /\ docs' = [d \in DOMAIN docs \cup {nextDoc} |->
                          IF d = nextDoc
                          THEN Document(payload.name, p, payload.type, payload.content,
                                        payload.parent_id, 0, FALSE)
                          ELSE docs[d]]
            /\ nextDoc' = nextDoc + 1
            /\ resp' = Serialized("create_document", req, 201, docs', nextDoc)
            /\ UNCHANGED <<userVars, libVars, tokenVars, sessions>>

\* variant: the parent is looked up without comparing its project
ParentCheck_AnyProject(p, document_id, parent_id) ==
    IF parent_id = NULL THEN ""
    ELSE IF parent_id \notin DOMAIN docs
    THEN "Invalid parent document"
    ELSE IF parent_id = document_id THEN "Document cannot be its own parent"
    ELSE ""

\* the parent_id block of update_document: "" when the new parent is
\* accepted, else the detail of the HTTP 400 it raises
ParentCheck(p, document_id, parent_id) ==
    IF parent_id = NULL THEN ""
    ELSE IF parent_id \notin DOMAIN docs \/ docs[parent_id].project_id # p
    THEN "Invalid parent document"
    ELSE IF parent_id = document_id THEN "Document cannot be its own parent"
    ELSE ""

\* the fields update_document assigns, in the order it assigns them;
\* payload.set is model_dump(exclude_unset=True)'s key set
UpdatedDocument(document, payload) ==
    [document EXCEPT
        !.name = IF "name" \in payload.set THEN payload.name ELSE @,
        !.content = IF "content" \in payload.set THEN payload.content ELSE @,
        !.parent_id = IF "parent_id" \in payload.set THEN payload.parent_id ELSE @,
        !.order = IF "order" \in payload.set THEN payload.order ELSE @,
        !.editable_by_agent =
            IF "editable_by_agent" \in payload.set THEN payload.editable_by_agent ELSE @]

\* PUT /api/v1/projects/{project_id}/documents/{document_id}
update_document(u, p, document_id, payload) ==
    LET req == [document_id |-> document_id, set |-> payload.set,
                parent_id |-> payload.parent_id]
        gate == ProjectGate(u, p)
    IN IF gate # 0 THEN Reject("update_document", req, gate, GateDetail(gate))
       ELSE IF document_id \notin DOMAIN docs \/ docs[document_id].project_id # p
       THEN Reject("update_document", req, 404, "Document not found")
       ELSE IF /\ "parent_id" \in payload.set
               /\ ParentCheck(p, document_id, payload.parent_id) # ""
       THEN Reject("update_document", req, 400,
                   ParentCheck(p, document_id, payload.parent_id))
       ELSE /\ docs' = [docs EXCEPT ![document_id] = UpdatedDocument(@, payload)]
            /\ resp' = Serialized("update_document", req, 200, docs', document_id)
            /\ UNCHANGED <<userVars, nextDoc, libVars, tokenVars, sessions>>

\* variant: a delete without the cascade over children
DeleteCascade_NodeOnly(tbl, n) == [d \in DOMAIN tbl \ {n} |-> tbl[d]]

\* DocumentRepository.delete / TemplateRepository.delete: db.delete(row)
\* with the children relationship's cascade="all, delete-orphan"
DeleteCascade(tbl, n) == [d \in DOMAIN tbl \ Subtree(tbl, n) |-> tbl[d]]

\* DELETE /api/v1/projects/{project_id}/documents/{document_id}
\* When the rows to delete lie on a parent cycle the unit of work cannot
\* order the row deletions: the flush either fails (nothing is deleted) or
\* deletes them all, depending on the database and ORM build.
delete_document(u, p, document_id) ==
    LET req == [document_id |-> document_id, rows |-> 0]
        gate == ProjectGate(u, p)
    IN IF gate # 0 THEN Reject("delete_document", req, gate, GateDetail(gate))
       ELSE IF document_id \notin DOMAIN docs \/ docs[document_id].project_id # p
       THEN Reject("delete_document", req, 404, "Document not found")
       ELSE \/ /\ docs' = DeleteCascade(docs, document_id)
               /\ resp' = Response("delete_document",
                                   [req EXCEPT !.rows = Cardinality(Subtree(docs, document_id))],
                                   204, "")
               /\ UNCHANGED <<userVars, nextDoc, libVars, tokenVars, sessions>>
            \/ /\ HasCycleBelow(docs, document_id)
               /\ Reject("delete_document", req, 500, "CircularDependencyError")

\* ------------------------------------------------------ conversion engine
\* the content of the document made from a template: the template's text
\* goes through json.loads, a dict is written back with json.dumps, any
\* other value is stored as json.loads returned it (a string literal loses
\* one level of quoting), and text json.loads rejects is stored as it is
TemplateContentToDocument(content) ==
    IF content.key # "" THEN content
    ELSE IF content.val > 0 THEN JsonText(content.val - 1)
    ELSE content

\* the content of the template made from a document: the same steps
DocumentContentToTemplate(content) ==
    IF content.key # "" THEN content
    ELSE IF content.val > 0 THEN JsonText(content.val - 1)
    ELSE content

\* the order in which the database returns the rows of a children
\* relationship (no ORDER BY): any permutation of the stored ids
RowOrders(tbl) ==
    {f \in [DOMAIN tbl -> 1..Cardinality(DOMAIN tbl)] :
        \A a, b \in DOMAIN tbl : a # b => f[a] # f[b]}

\* sorted(children, key=lambda t: t.order): ascending order key, and the
\* sort is stable, so equal keys stay in row order
RECURSIVE SortedByOrder(_, _, _)
SortedByOrder(tbl, S, rank) ==
    IF S = {} THEN <<>>
    ELSE LET first == CHOOSE c \in S : \A o \in S \ {c} :
                          \/ tbl[c].order < tbl[o].order
                          \/ tbl[c].order = tbl[o].order /\ rank[c] < rank[o]
         IN <<first>> \o SortedByOrder(tbl, S \ {first}, rank)

SortedChildren(tbl, n, rank) == SortedByOrder(tbl, children(tbl, n), rank)

\* 0-based position of c in enumerate(sorted(children))
IndexIn(seq, c) == (CHOOSE i \in DOMAIN seq : seq[i] = c) - 1

\* the nodes of the subtree of n in the order the recursion creates their
\* copies: a node, then the subtree of each child in sorted order
RECURSIVE Preorder(_, _, _)
RECURSIVE PreorderAll(_, _, _)
Preorder(tbl, n, rank) == <<n>> \o PreorderAll(tbl, SortedChildren(tbl, n, rank), rank)
PreorderAll(tbl, seq, rank) ==
    IF seq = <<>> THEN <<>>
    ELSE Preorder(tbl, Head(seq), rank) \o PreorderAll(tbl, Tail(seq), rank)

\* the id given to the copy of the i-th node created, ids being handed out
\* in creation order
NewId(next, pre, src) == next + IndexIn(pre, src)

\* Template(...) row
Template(name, team_id, user_id, category, type, visibility, content, parent_id, order) ==
    [name |-> name, team_id |-> team_id, user_id |-> user_id, category |-> category,
     type |-> type, visibility |-> visibility, content |-> content,
     parent_id |-> parent_id, order |-> order]

\* variant: every copy keeps the order value stored on its template
DocumentsFromTemplate_CopyOrder(template_id, project_id, rank) ==
    LET pre == Preorder(templates, template_id, rank)
        row(src) ==
            LET t == templates[src]
            IN Document(t.name, project_id, t.type,
                        TemplateContentToDocument(t.content),
                        IF src = template_id THEN NULL
                        ELSE NewId(nextDoc, pre, t.parent_id),
                        IF src = template_id THEN 0 ELSE t.order,
                        FALSE)
    IN [d \in {NewId(nextDoc, pre, src) : src \in Range(pre)} |->
          row(CHOOSE src \in Range(pre) : NewId(nextDoc, pre, src) = d)]

\* _create_document_from_template applied to the template's subtree: the
\* document rows added, keyed by their new ids
DocumentsFromTemplate(template_id, project_id, rank) ==
    LET pre == Preorder(templates, template_id, rank)
        row(src) ==
            LET t == templates[src]
            IN Document(t.name, project_id, t.type,
                        TemplateContentToDocument(t.content),
                        IF src = template_id THEN NULL
                        ELSE NewId(nextDoc, pre, t.parent_id),
                        IF src = template_id THEN 0
                        ELSE IndexIn(SortedChildren(templates, t.parent_id, rank), src),
                        FALSE)
    IN [d \in {NewId(nextDoc, pre, src) : src \in Range(pre)} |->
          row(CHOOSE src \in Range(pre) : NewId(nextDoc, pre, src) = d)]

\* variant: every user may use every template
CanAccess_Anyone(u, t) == TRUE

\* the visibility rule of get_template / create_document_from_template
CanAccess(u, t) ==
    \/ t.visibility = "public"
    \/ t.visibility = "team" /\ t.team_id \in teams(u)
    \/ t.visibility = "private" /\ t.user_id = u

\* POST /api/v1/projects/{project_id}/documents/from-template/{template_id}
create_document_from_template(u, p, template_id, rank) ==
    LET req == [user |-> u, project_id |-> p, template_id |-> template_id]
        gate == ProjectGate(u, p)
        op == "create_document_from_template"
    IN IF gate # 0 THEN Reject(op, req, gate, GateDetail(gate))
       ELSE IF template_id \notin DOMAIN templates
       THEN Reject(op, req, 404, "Template not found")
       ELSE IF ~CanAccess(u, templates[template_id])
       THEN Reject(op, req, 403, "Cannot access this template")
       ELSE LET new == DocumentsFromTemplate(template_id, p, rank)
            IN /\ nextDoc + Cardinality(DOMAIN new) - 1 <= MaxDocs
               /\ docs' = [d \in DOMAIN docs \cup DOMAIN new |->
                             IF d \in DOMAIN new THEN new[d] ELSE docs[d]]
               /\ nextDoc' = nextDoc + Cardinality(DOMAIN new)
               /\ resp' = Response(op, req, 201, "")
               /\ UNCHANGED <<userVars, libVars, tokenVars, sessions>>

\* variant: the children are copied whatever include_children says
TemplatesFromDocument_AlwaysChildren(document_id, payload, u, rank) ==
    LET pre == Preorder(docs, document_id, rank)
        row(src) ==
            LET d == docs[src]
            IN Template(IF src = document_id THEN payload.name ELSE d.name,
                        projects[d.project_id], u, payload.category_name,
                        IF d.type = "markdown" THEN "markdown" ELSE "whiteboard",
                        payload.visibility, DocumentContentToTemplate(d.content),
                        IF src = document_id THEN NULL
                        ELSE NewId(nextTemplate, pre, d.parent_id),
                        IF src = document_id THEN 0
                        ELSE IndexIn(SortedChildren(docs, d.parent_id, rank), src))
    IN [t \in {NewId(nextTemplate, pre, src) : src \in Range(pre)} |->
          row(CHOOSE src \in Range(pre) : NewId(nextTemplate, pre, src) = t)]

\* _create_template_from_document / _create_template_with_children applied
\* to the document's subtree (only the document itself when include_children
\* is false): the template rows added, keyed by their new ids
TemplatesFromDocument(document_id, payload, u, rank) ==
    LET pre == IF payload.include_children THEN Preorder(docs, document_id, rank)
               ELSE <<document_id>>
        row(src) ==
            LET d == docs[src]
            IN Template(IF src = document_id THEN payload.name ELSE d.name,
                        projects[d.project_id], u, payload.category_name,
                        IF d.type = "markdown" THEN "markdown" ELSE "whiteboard",
                        payload.visibility, DocumentContentToTemplate(d.content),
                        IF src = document_id THEN NULL
                        ELSE NewId(nextTemplate, pre, d.parent_id),
                        IF src = document_id THEN 0
                        ELSE IndexIn(SortedChildren(docs, d.parent_id, rank), src))
    IN [t \in {NewId(nextTemplate, pre, src) : src \in Range(pre)} |->
          row(CHOOSE src \in Range(pre) : NewId(nextTemplate, pre, src) = t)]

\* POST /api/v1/library/templates/
\* With include_children the recursion follows children without a visited
\* set: on a parent cycle it never returns a template, the request fails and
\* its transaction (the category included) is rolled back.
create_template(u, payload, rank) ==
    LET req == [user |-> u, document_id |-> payload.document_id,
                include_children |-> payload.include_children]
        document_id == payload.document_id
    IN IF document_id \notin DOMAIN docs
       THEN Reject("create_template", req, 404, "Document not found")
       ELSE IF projects[docs[document_id].project_id] \notin teams(u)
       THEN Reject("create_template", req, 403,
                   "Not a member of this document's project team")
       ELSE IF payload.include_children /\ HasCycleBelow(docs, document_id)
       THEN Reject("create_template", req, 500, "RecursionError")
       ELSE LET new == TemplatesFromDocument(document_id, payload, u, rank)
            IN /\ nextTemplate + Cardinality(DOMAIN new) - 1 <= MaxTemplates
               /\ templates' = [t \in DOMAIN templates \cup DOMAIN new |->
                                  IF t \in DOMAIN new THEN new[t] ELSE templates[t]]
               /\ nextTemplate' = nextTemplate + Cardinality(DOMAIN new)
               /\ categories' = categories \cup {payload.category_name}
               /\ resp' = Response("create_template", req, 201, "")
               /\ UNCHANGED <<userVars, docVars, tokenVars, sessions>>

\* DELETE /api/v1/library/templates/{template_id}
delete_template(u, template_id) ==
    LET req == [template_id |-> template_id, rows |-> 0]
    IN IF template_id \notin DOMAIN templates
       THEN Reject("delete_template", req, 404, "Template not found")
       ELSE IF templates[template_id].team_id \notin teams(u)
       THEN Reject("delete_template", req, 403,
                   "Only the owning team can delete this template")
       ELSE /\ templates' = DeleteCascade(templates, template_id)
            /\ resp' = Response("delete_template",
                                [req EXCEPT !.rows = Cardinality(Subtree(templates, template_id))],
                                204, "")
            /\ UNCHANGED <<userVars, docVars, nextTemplate, categories, tokenVars, sessions>>

\* ---------------------------------------------------- REST: project routes
\* DELETE /api/v1/projects/{project_id}; Project.documents has
\* cascade="all, delete-orphan"
delete_project(u, p) ==
    LET req == [project_id |-> p]
        gate == ProjectGate(u, p)
    IN IF gate # 0 THEN Reject("delete_project", req, gate, GateDetail(gate))
       ELSE /\ projects' = [q \in DOMAIN projects \ {p} |-> projects[q]]
            /\ docs' = [d \in {x \in DOMAIN docs : docs[x].project_id # p} |-> docs[d]]
            /\ resp' = Response("delete_project", req, 204, "")
            /\ UNCHANGED <<members, invitations, nextDoc, libVars, tokenVars, sessions>>

\* ------------------------------------------------------------ initial state
\* two teams with one project each; u1 belongs to both teams, u2 to t2 only;
\* no project p3 exists
InitProjects == [p \in {"p1", "p2"} |-> IF p = "p1" THEN "t1" ELSE "t2"]

InitMembers ==
    {[user |-> "u1", team |-> "t1", role |-> "administrator"],
     [user |-> "u1", team |-> "t2", role |-> "member"],
     [user |-> "u2", team |-> "t2", role |-> "administrator"]}

Empty == [x \in {} |-> 0]

\* a template with one child, as create_template with include_children
\* leaves it (root order 0, children numbered from 0)
InitTemplates ==
    [t \in {1, 2} |->
        Template("tpl", "t1", "u1", "c1", "markdown", "team", DefaultContent,
                 IF t = 1 THEN NULL ELSE 1, 0)]

\* ------------------------------------------- specification: document tree
\* The REST document routes over two projects, with a two-node template in
\* the library to instantiate.
Init ==
    /\ projects = InitProjects
    /\ members = InitMembers
    /\ invitations = Empty
    /\ sessions = Empty
    /\ docs = Empty
    /\ nextDoc = 1
    /\ templates = InitTemplates
    /\ nextTemplate = 3
    /\ categories = {"c1"}
    /\ tokens = Empty
    /\ nextToken = 1
    /\ resp = NoResponse

\* callers: a member of the project's team, a non-member, a missing project
TreeCallers == {<<"u1", "p1">>, <<"u1", "p2">>, <<"u2", "p1">>, <<"u1", "p3">>}

TreeParents == {NULL} \cup DOMAIN docs \cup {UnknownDocId}

TreeCreatePayloads ==
    [name : {"doc"}, type : {"markdown"}, content : {DefaultContent},
     parent_id : TreeParents]

TreeUpdatePayloads ==
    [set : {{"parent_id"}}, name : {"doc"}, content : {DefaultContent},
     parent_id : TreeParents, order : {0}, editable_by_agent : {FALSE}]

\* a request the project gate turns away is enumerated once, with the ids
\* it would not get to read
TreeTargets(c) ==
    IF ProjectGate(c[1], c[2]) = 0 THEN DOMAIN docs \cup {UnknownDocId}
    ELSE {UnknownDocId}

TreeParentsFor(c) == IF ProjectGate(c[1], c[2]) = 0 THEN TreeParents ELSE {NULL}

CreateDocument ==
    \E c \in TreeCallers :
        \E payload \in {x \in TreeCreatePayloads : x.parent_id \in TreeParentsFor(c)} :
            /\ create_document(c[1], c[2], payload)
            /\ nextDoc' <= MaxTreeDocs + 1

UpdateDocument ==
    \E c \in TreeCallers :
        \E d \in TreeTargets(c),
           payload \in {x \in TreeUpdatePayloads : x.parent_id \in TreeParentsFor(c)} :
            update_document(c[1], c[2], d, payload)

DeleteDocument ==
    \E c \in TreeCallers : \E d \in TreeTargets(c) : delete_document(c[1], c[2], d)

CreateDocumentFromTemplate ==
    \E c \in TreeCallers :
        \E t \in IF ProjectGate(c[1], c[2]) = 0 THEN DOMAIN templates \cup {nextTemplate}
                 ELSE {nextTemplate},
           rank \in RowOrders(templates) :
            /\ create_document_from_template(c[1], c[2], t, rank)
            /\ nextDoc' <= MaxTreeDocs + 1

Next ==
    \/ CreateDocument
    \/ UpdateDocument
    \/ DeleteDocument
    \/ CreateDocumentFromTemplate

Spec == Init /\ [][Next]_vars

\* ----------------------------------------------------- claims C1, C2, C4
\* x is a proper ancestor of n: n is reached from x through children
IsProperAncestor(tbl, x, n) == x # n /\ n \in Descendants(tbl, x)

\* C1: the document parent graph is acyclic in every reachable state:
\* following parent_id from any document reaches a root (parent_id null)
\* without visiting a document twice, so within as many steps as there are
\* documents.
C1_Acyclic ==
    \A d \in DOMAIN docs : ReachesRoot(docs, d, Cardinality(DOMAIN docs))

\* the details update_document can answer with; none mentions a circular
\* reference
MentionsCircular(detail) ==
    detail \notin {"", "Project not found", "Not a member of this project's team",
                   "Document not found", "Invalid parent document",
                   "Document cannot be its own parent"}

\* C2: a PUT that gets past the access and lookup checks and sets the
\* parent of document X to a document P of which X is a proper ancestor is
\* answered HTTP 400 with a detail that mentions a circular reference, and
\* leaves every document's parent_id unchanged.
C2_CycleRejected ==
    [][(/\ resp'.op = "update_document"
        /\ resp'.status \notin {403, 404}
        /\ "parent_id" \in resp'.info.set
        /\ resp'.info.document_id \in DOMAIN docs
        /\ resp'.info.parent_id \in DOMAIN docs
        /\ IsProperAncestor(docs, resp'.info.document_id, resp'.info.parent_id))
       => (/\ resp'.status = 400
           /\ MentionsCircular(resp'.detail)
           /\ DOMAIN docs' = DOMAIN docs
           /\ \A d \in DOMAIN docs : docs'[d].parent_id = docs[d].parent_id)]_vars

\* the parent a create or update request names is missing or lies in
\* another project than the request's
BadParent(project_id, parent_id) ==
    /\ parent_id # NULL
    /\ (parent_id \notin DOMAIN docs \/ docs[parent_id].project_id # project_id)

\* C4: in every reachable state a document with a parent has the project of
\* the document its parent_id refers to; and a create or update that gets
\* past the access and lookup checks and names a parent in another project,
\* or a parent that does not exist, is rejected and stores nothing.
C4_ParentInProject ==
    /\ [](\A d \in DOMAIN docs :
            docs[d].parent_id # NULL =>
                /\ docs[d].parent_id \in DOMAIN docs
                /\ docs[docs[d].parent_id].project_id = docs[d].project_id)
    /\ [][(/\ resp'.op = "create_document"
           /\ resp'.status \notin {403}
           /\ resp'.info.project_id \in DOMAIN projects
           /\ BadParent(resp'.info.project_id, resp'.info.parent_id))
          => (resp'.status = 404 /\ UNCHANGED <<userVars, docVars, libVars, tokenVars>>)]_vars
    /\ [][(/\ resp'.op = "update_document"
           /\ resp'.status \notin {403, 404}
           /\ "parent_id" \in resp'.info.set
           /\ BadParent(docs[resp'.info.document_id].project_id, resp'.info.parent_id))
          => (resp'.status = 400 /\ UNCHANGED <<userVars, docVars, libVars, tokenVars>>)]_vars

\* C4 witness: two projects hold documents and the last request, a PUT
\* naming a parent outside the document's project, was rejected
C4_Witness ==
    /\ resp.op = "update_document"
    /\ resp.status = 400
    /\ resp.detail = "Invalid parent document"
    /\ resp.info.parent_id \in DOMAIN docs
    /\ resp.info.document_id \in DOMAIN docs
    /\ docs[resp.info.parent_id].project_id # docs[resp.info.document_id].project_id
    /\ docs[resp.info.document_id].parent_id = NULL

\* ------------------------------------------ specification: delete cascades
\* One project and an empty library: documents are created, reparented and
\* deleted, copied into templates (alone or with their subtree), and
\* templates are deleted.
InitDelete ==
    /\ projects = InitProjects
    /\ members = InitMembers
    /\ invitations = Empty
    /\ sessions = Empty
    /\ docs = Empty
    /\ nextDoc = 1
    /\ templates = Empty
    /\ nextTemplate = 1
    /\ categories = {}
    /\ tokens = Empty
    /\ nextToken = 1
    /\ resp = NoResponse

DelParents == {NULL} \cup DOMAIN docs

DelCreateDocument ==
    \E payload \in {x \in TreeCreatePayloads : x.parent_id \in DelParents} :
        /\ create_document("u1", "p1", payload)
        /\ nextDoc' <= MaxTreeDocs + 1

DelUpdateDocument ==
    \E d \in DOMAIN docs,
       payload \in {x \in TreeUpdatePayloads : x.parent_id \in DelParents} :
        update_document("u1", "p1", d, payload)

DelDeleteDocument ==
    \/ \E d \in DOMAIN docs \cup {UnknownDocId} : delete_document("u1", "p1", d)
    \/ delete_document("u2", "p1", UnknownDocId)

DelTemplatePayloads ==
    [document_id : DOMAIN docs, include_children : BOOLEAN, name : {"tpl"},
     category_name : {"c1"}, visibility : {"team"}]

DelCreateTemplate ==
    \E payload \in DelTemplatePayloads, rank \in RowOrders(docs) :
        create_template("u1", payload, rank)

DelDeleteTemplate ==
    \E u \in Users, t \in DOMAIN templates \cup {nextTemplate} :
        delete_template(u, t)

NextDelete ==
    \/ DelCreateDocument
    \/ DelUpdateDocument
    \/ DelDeleteDocument
    \/ DelCreateTemplate
    \/ DelDeleteTemplate

SpecDelete == InitDelete /\ [][NextDelete]_vars

\* ----------------------------------------------------------------- claim C3
\* the delete of node n took tbl to tbl2: the rows gone are n and its
\* transitive descendants, every other row is still there as it was
RemovedExactly(tbl, tbl2, n) ==
    /\ DOMAIN tbl2 = DOMAIN tbl \ ({n} \cup Descendants(tbl, n))
    /\ \A d \in DOMAIN tbl2 : tbl2[d] = tbl[d]

ApiToken(user_id) == [user_id |-> user_id, deleted_at |-> NULL]

\* a token string no row holds
UnknownToken == MaxTokens + 1

\* POST /api/v1/api-tokens/
create_api_token(u) ==
    /\ nextToken <= MaxTokens
    /\ tokens' = [t \in DOMAIN tokens \cup {nextToken} |->
                    IF t = nextToken THEN ApiToken(u) ELSE tokens[t]]
    /\ nextToken' = nextToken + 1
    /\ resp' = Response("create_api_token", [token_id |-> nextToken], 201, "")
    /\ UNCHANGED <<userVars, docVars, libVars, sessions>>

\* DELETE /api/v1/api-tokens/{token_id}: ApiTokenRepository.soft_delete
delete_api_token(u, token_id) ==
    LET req == [token_id |-> token_id]
    IN IF token_id \notin DOMAIN tokens
       THEN Reject("delete_api_token", req, 404, "Token not found")
       ELSE IF tokens[token_id].user_id # u
       THEN Reject("delete_api_token", req, 403, "You can only delete your own tokens")
       ELSE IF tokens[token_id].deleted_at # NULL
       THEN Reject("delete_api_token", req, 404, "Token not found")
       ELSE /\ tokens' = [tokens EXCEPT ![token_id].deleted_at = 1]
            /\ resp' = Response("delete_api_token", req, 204, "")
            /\ UNCHANGED <<userVars, docVars, libVars, nextToken, sessions>>

\* ------------------------------------------------ MCP: bearer authentication
\* An Authorization header: absent, or a string given by its
\* whitespace-separated words (no word: the empty string)
Header(parts) == [given |-> TRUE, parts |-> parts]
NoHeader == [given |-> FALSE, parts |-> <<>>]

\* str.lower on the scheme word
Lower(w) ==
    CASE w = "Bearer" -> "bearer"
      [] w = "Basic" -> "basic"
      [] OTHER -> w

AuthOk(user) == [status |-> 0, detail |-> "", user |-> user]
AuthFail(status, detail) == [status |-> status, detail |-> detail, user |-> ""]

\* variant: deleted_at is not looked at
get_current_user_from_bearer_token_NoRevocation(authorization) ==
    IF ~authorization.given \/ authorization.parts = <<>>
    THEN AuthFail(401, "Authorization header required")
    ELSE LET parts == authorization.parts
         IN IF Len(parts) # 2 \/ Lower(parts[1]) # "bearer"
            THEN AuthFail(401, "Invalid authorization header format. Expected: Bearer <token>")
            ELSE IF parts[2] \notin DOMAIN tokens
            THEN AuthFail(401, "Invalid token")
            ELSE AuthOk(tokens[parts[2]].user_id)

\* the bearer-token dependency: 0 and the token's user, or the 401 raised
get_current_user_from_bearer_token(authorization) ==
    IF ~authorization.given \/ authorization.parts = <<>>
    THEN AuthFail(401, "Authorization header required")
    ELSE LET parts == authorization.parts
         IN IF Len(parts) # 2 \/ Lower(parts[1]) # "bearer"
            THEN AuthFail(401, "Invalid authorization header format. Expected: Bearer <token>")
            ELSE IF parts[2] \notin DOMAIN tokens
            THEN AuthFail(401, "Invalid token")
            ELSE IF tokens[parts[2]].deleted_at # NULL
            THEN AuthFail(401, "Token has been revoked")
            ELSE AuthOk(tokens[parts[2]].user_id)

\* variant: the project is looked up before the user is resolved
verify_project_access_ProjectFirst(authorization, project_id) ==
    LET auth == get_current_user_from_bearer_token(authorization)
    IN IF project_id \notin DOMAIN projects
       THEN AuthFail(404, "Project not found")
       ELSE IF auth.status # 0 THEN auth
       ELSE IF projects[project_id] \notin teams(auth.user)
       THEN AuthFail(403, "You don't have access to this project")
       ELSE auth

\* the dependency of the MCP endpoint: the user is resolved first
verify_project_access(authorization, project_id) ==
    LET auth == get_current_user_from_bearer_token(authorization)
    IN IF auth.status # 0 THEN auth
       ELSE IF project_id \notin DOMAIN projects
       THEN AuthFail(404, "Project not found")
       ELSE IF projects[project_id] \notin teams(auth.user)
       THEN AuthFail(403, "You don't have access to this project")
       ELSE auth

\* ------------------------------------------------------ MCP: image codec
ImageTokens(markdown) == SelectSeq(markdown, LAMBDA x : x.t = "img")

\* replace_image's image_data: caption, mime type and data of the match,
\* and the title when it is not empty; the blanks before the title are not
\* recorded, so a loose tag gives the record of the canonical one
image_data(match) == IF match.v < 0 THEN -match.v ELSE match.v

\* IMAGE_PATTERN.sub(replace_image, markdown): the n-th image tag becomes
\* the placeholder [image:n-1], its record is appended to images
extract_images_from_markdown(markdown) ==
    [markdown |-> [i \in 1..Len(markdown) |->
                     IF markdown[i].t = "img"
                     THEN Ph(Len(ImageTokens(SubSeq(markdown, 1, i))) - 1)
                     ELSE markdown[i]],
     images |-> [i \in 1..Len(ImageTokens(markdown)) |->
                   image_data(ImageTokens(markdown)[i])]]

\* placeholder_pattern.sub(replace_placeholder, markdown): a placeholder
\* whose index is out of range stays as it is
restore_images_to_markdown(markdown, images) ==
    [i \in 1..Len(markdown) |->
        IF markdown[i].t = "ph" /\ 0 <= markdown[i].v /\ markdown[i].v < Len(images)
        THEN Img(images[markdown[i].v + 1])
        ELSE markdown[i]]

\* ------------------------------------------------------- MCP: tool handlers
\* what a handler leaves behind: it returned a result ("result") or raised
\* ("ValueError", "HTTPException") or never returns ("hang"), and the
\* documents table it committed
\* The result's payload is modelled for list_documents only (NoContent
\* stands for the content blocks of the other tools).
NoContent == <<>>
ToolOk(d, n) ==
    [kind |-> "result", message |-> "", docs |-> d, nextDoc |-> n, content |-> NoContent]
ToolRaise(kind, message) ==
    [kind |-> kind, message |-> message, docs |-> docs, nextDoc |-> nextDoc,
     content |-> NoContent]
ToolResult(content) ==
    [kind |-> "result", message |-> "", docs |-> docs, nextDoc |-> nextDoc,
     content |-> content]

\* tool arguments; an argument that is not given reads as "" (BadUuid for
\* an id, the empty string for content)
Arguments(id, document_id, title, type, content) ==
    [id |-> id, document_id |-> document_id, title |-> title, type |-> type,
     content |-> content, query |-> ""]

\* the arguments of search_documents
SearchArguments(query) ==
    [id |-> BadUuid, document_id |-> BadUuid, title |-> "", type |-> "",
     content |-> <<>>, query |-> query]

\* the chain of get_document_tool as a list, root first
RECURSIVE ChainSeq(_, _, _)
ChainSeq(tbl, n, k) ==
    IF k = 0 \/ tbl[n].parent_id = NULL \/ tbl[n].parent_id \notin DOMAIN tbl
    THEN <<n>>
    ELSE ChainSeq(tbl, tbl[n].parent_id, k - 1) \o <<n>>

\* the requested document and its ancestors, walking parent_id
RECURSIVE documents_chain(_, _, _)
documents_chain(tbl, n, k) ==
    IF k = 0 \/ tbl[n].parent_id = NULL \/ tbl[n].parent_id \notin DOMAIN tbl
    THEN {n}
    ELSE {n} \cup documents_chain(tbl, tbl[n].parent_id, k - 1)

\* variant: the stored markdown is replaced by the text with placeholders
SaveImages_StripMarkdown(doc) ==
    LET out == extract_images_from_markdown(doc.content.val)
    IN IF doc.type = "markdown" /\ out.images # <<>>
       THEN [doc EXCEPT !.content.images = out.images, !.content.val = out.markdown]
       ELSE doc

\* get_document_tool's write: a markdown document whose text holds image
\* tags gets the extracted images saved under "images"
SaveImages(doc) ==
    LET images == extract_images_from_markdown(doc.content.val).images
    IN IF doc.type = "markdown" /\ images # <<>>
       THEN [doc EXCEPT !.content.images = images]
       ELSE doc

\* The walk up the parents has no visited set: on a parent cycle it never
\* ends and nothing is written.
get_document_tool(project_id, document_id) ==
    IF project_id \notin DOMAIN projects THEN ToolRaise("ValueError", "Project not found")
    ELSE IF document_id = BadUuid
    THEN ToolRaise("ValueError", "Invalid document ID format")
    ELSE IF document_id \notin DOMAIN docs \/ docs[document_id].project_id # project_id
    THEN ToolRaise("ValueError", "Document not found")
    ELSE IF ~ReachesRoot(docs, document_id, Cardinality(DOMAIN docs))
    THEN ToolRaise("hang", "")
    ELSE LET chain == documents_chain(docs, document_id, Cardinality(DOMAIN docs))
         IN [kind |-> "result", message |-> "",
             docs |-> [d \in DOMAIN docs |->
                         IF d \in chain THEN SaveImages(docs[d]) ELSE docs[d]],
             nextDoc |-> nextDoc,
             content |-> ChainSeq(docs, document_id, Cardinality(DOMAIN docs))]

NotEditable == "This document is not editable by agents. Set editable_by_agent=true first."

\* the content edit_document stores for a document of the given type
EditedContent(document, content) ==
    IF document.type = "markdown"
    THEN Content("markdown",
                 restore_images_to_markdown(content, document.content.images), <<>>)
    ELSE Content("raw", content, <<>>)

\* variant: editable_by_agent is not looked at
edit_document_tool_NoGate(project_id, document_id, content) ==
    IF project_id \notin DOMAIN projects THEN ToolRaise("ValueError", "Project not found")
    ELSE IF document_id = BadUuid
    THEN ToolRaise("ValueError", "Invalid document ID format")
    ELSE IF document_id \notin DOMAIN docs \/ docs[document_id].project_id # project_id
    THEN ToolRaise("ValueError", "Document not found")
    ELSE IF docs[document_id].type = "whiteboard" /\ ~IsJson(content)
    THEN ToolRaise("ValueError", "Whiteboard content must be valid JSON")
    ELSE ToolOk([docs EXCEPT ![document_id].content =
                    EditedContent(docs[document_id], content)], nextDoc)

\* edit_document: the editable_by_agent gate comes after the lookups and
\* before the content is looked at
edit_document_tool(project_id, document_id, content) ==
    IF project_id \notin DOMAIN projects THEN ToolRaise("ValueError", "Project not found")
    ELSE IF document_id = BadUuid
    THEN ToolRaise("ValueError", "Invalid document ID format")
    ELSE IF document_id \notin DOMAIN docs \/ docs[document_id].project_id # project_id
    THEN ToolRaise("ValueError", "Document not found")
    ELSE IF ~docs[document_id].editable_by_agent
    THEN ToolRaise("ValueError", NotEditable)
    ELSE IF docs[document_id].type = "whiteboard" /\ ~IsJson(content)
    THEN ToolRaise("ValueError", "Whiteboard content must be valid JSON")
    ELSE ToolOk([docs EXCEPT ![document_id].content =
                    EditedContent(docs[document_id], content)], nextDoc)

create_document_tool(project_id, title, doc_type, content) ==
    IF project_id \notin DOMAIN projects THEN ToolRaise("ValueError", "Project not found")
    ELSE IF doc_type \notin {"markdown", "whiteboard"}
    THEN ToolRaise("ValueError", "Invalid document type. Must be 'markdown' or 'whiteboard'")
    ELSE IF doc_type = "whiteboard" /\ ~IsJson(content)
    THEN ToolRaise("ValueError", "Whiteboard content must be valid JSON")
    ELSE ToolOk([d \in DOMAIN docs \cup {nextDoc} |->
                   IF d = nextDoc
                   THEN Document(title, project_id, doc_type,
                                 Content(IF doc_type = "markdown" THEN "markdown" ELSE "raw",
                                         content, <<>>),
                                 NULL, 0, TRUE)
                   ELSE docs[d]], nextDoc + 1)

\* DocumentRepository.list_for_project: the ids of the project's rows,
\* ORDER BY order, created_at (rows are created in id order)
list_for_project(project_id) ==
    SortedByOrder(docs, {d \in DOMAIN docs : docs[d].project_id = project_id},
                  [d \in DOMAIN docs |-> d])

\* build_document_tree: the node of a document, its children (the rows of
\* all_docs naming it as parent) nested under "descendants"; an empty
\* sequence stands for a node without that member
RECURSIVE build_document_tree(_, _)
build_document_tree(document, all_docs) ==
    LET kids == SelectSeq(all_docs, LAMBDA d : docs[d].parent_id = document)
    IN [id |-> document, name |-> docs[document].name,
        editable_by_agent |-> docs[document].editable_by_agent,
        descendants |-> [i \in 1..Len(kids) |-> build_document_tree(kids[i], all_docs)]]

\* list_documents: the trees of the project's parent-less documents
list_documents_tool(project_id) ==
    IF project_id \notin DOMAIN projects THEN ToolRaise("ValueError", "Project not found")
    ELSE LET all_docs == list_for_project(project_id)
             root_documents == SelectSeq(all_docs, LAMBDA d : docs[d].parent_id = NULL)
         IN ToolResult([i \in 1..Len(root_documents) |->
                          build_document_tree(root_documents[i], all_docs)])

\* search_documents only reads
\* a word of the query matches a document when the document's name or its
\* stored content text contains it; the words of the model are whole names
\* and content keys, and the empty query matches every document
Matches(doc, query) ==
    \/ query = ""
    \/ query = doc.name
    \/ doc.content.key # "" /\ query = doc.content.key

\* the answer lists the matching documents of the project, oldest first
search_documents_tool(project_id, query) ==
    IF project_id \notin DOMAIN projects THEN ToolRaise("ValueError", "Project not found")
    ELSE LET found == {d \in DOMAIN docs :
                         docs[d].project_id = project_id /\ Matches(docs[d], query)}
         IN ToolResult(SortedByOrder([d \in DOMAIN docs |-> [order |-> d]], found,
                                     [d \in DOMAIN docs |-> d]))

execute_tool(tool_name, arguments, project_id) ==
    IF tool_name = "list_documents" THEN list_documents_tool(project_id)
    ELSE IF tool_name = "search_documents"
    THEN search_documents_tool(project_id, arguments.query)
    ELSE IF tool_name = "get_document"
    THEN get_document_tool(project_id, arguments.id)
    ELSE IF tool_name = "edit_document"
    THEN edit_document_tool(project_id, arguments.document_id, arguments.content)
    ELSE IF tool_name = "create_document"
    THEN create_document_tool(project_id, arguments.title, arguments.type,
                              arguments.content)
    ELSE ToolRaise("ValueError", "Unknown tool")

handle_mcp_request(request_data, project_id) ==
    IF request_data.method \in {"initialize", "tools/list"} THEN ToolOk(docs, nextDoc)
    ELSE IF request_data.method = "tools/call"
    THEN execute_tool(request_data.name, request_data.arguments, project_id)
    ELSE ToolRaise("HTTPException", "400: Unknown method")

\* --------------------------------------------------------- MCP: endpoint
\* a request body: bytes that are not JSON, or a JSON-RPC request object
NoArguments == Arguments(BadUuid, BadUuid, "", "", <<>>)
MalformedBody ==
    [json |-> FALSE, id |-> NULL, method |-> "", name |-> "", arguments |-> NoArguments]
Request(id, method, name, arguments) ==
    [json |-> TRUE, id |-> id, method |-> method, name |-> name, arguments |-> arguments]

\* the JSON-RPC part of an answer; kind "none" when the answer is a bare
\* HTTP error
NoRpc ==
    [kind |-> "none", code |-> 0, message |-> "", id |-> NULL, sse |-> FALSE,
     content |-> NoContent]
McpResponse(info, status, detail, rpc) ==
    [op |-> "mcp", info |-> info, status |-> status, detail |-> detail, rpc |-> rpc]

\* variant: the exception is left to the framework
McpError_Http500(info, id, message) ==
    McpResponse(info, 500, "Internal Server Error", NoRpc)

\* except Exception: the error object is returned as a plain dict, HTTP 200
McpError(info, id, message) ==
    McpResponse(info, 200, "",
                [kind |-> "error", code |-> -32603, message |-> message,
                 id |-> id, sse |-> FALSE, content |-> NoContent])

\* Accept header values: none sent (""), JSON only, the event stream only,
\* both; "text/event-stream" in accept_header is a substring test
AcceptHeaders ==
    {"", "application/json", "text/event-stream", "application/json, text/event-stream"}

AcceptsEventStream(accept) ==
    accept \in {"text/event-stream", "application/json, text/event-stream"}

\* POST /api/mcp/{project_id}
mcp_endpoint(authorization, project_id, accept, body) ==
    LET info == [authorization |-> authorization, project_id |-> project_id,
                 accept |-> accept, body |-> body]
        access == verify_project_access(authorization, project_id)
    IN IF access.status # 0
       THEN /\ resp' = McpResponse(info, access.status, access.detail, NoRpc)
            /\ UNCHANGED <<userVars, docVars, libVars, tokenVars, sessions>>
       ELSE IF ~body.json
       THEN /\ resp' = McpResponse(info, 400, "Invalid JSON", NoRpc)
            /\ UNCHANGED <<userVars, docVars, libVars, tokenVars, sessions>>
       ELSE LET out == handle_mcp_request(body, project_id)
            IN /\ out.nextDoc <= MaxDocs + 1
               /\ docs' = out.docs
               /\ nextDoc' = out.nextDoc
               /\ resp' = IF out.kind = "result"
                          THEN McpResponse(info, 200, "",
                                   [kind |-> "result", code |-> 0, message |-> "",
                                    id |-> body.id,
                                    sse |-> AcceptsEventStream(accept),
                                    content |-> out.content])
                          ELSE IF out.kind = "hang"
                          THEN McpResponse(info, 0, "no response", NoRpc)
                          ELSE McpError(info, body.id, out.message)
               /\ UNCHANGED <<userVars, libVars, tokenVars, sessions>>

\* -------------------------------------- specification: bearer authentication
\* Users create and revoke API tokens; MCP requests arrive with every shape
\* of Authorization header, for an existing and a missing project, with
\* bodies that are malformed, read-only, writing, or of an unknown method.
InitAuth ==
    /\ projects = InitProjects
    /\ members = InitMembers
    /\ invitations = Empty
    /\ sessions = Empty
    /\ docs = Empty
    /\ nextDoc = 1
    /\ templates = Empty
    /\ nextTemplate = 1
    /\ categories = {}
    /\ tokens = Empty
    /\ nextToken = 1
    /\ resp = NoResponse

AuthHeaders ==
    {NoHeader, Header(<<>>), Header(<<"Bearer">>)}
    \cup {Header(<<s, t>>) : s \in {"Bearer", "bearer", "Basic"},
                            t \in DOMAIN tokens \cup {UnknownToken}}
    \cup {Header(<<"Bearer", t, t>>) : t \in DOMAIN tokens}

AuthBodies ==
    {MalformedBody,
     Request(7, "tools/list", "", NoArguments),
     Request(7, "tools/call", "create_document",
             Arguments(BadUuid, BadUuid, "doc", "markdown", <<Txt(1)>>)),
     Request(7, "resources/list", "", NoArguments)}

AuthCreateApiToken == \E u \in Users : create_api_token(u)

AuthDeleteApiToken ==
    \E u \in Users, t \in DOMAIN tokens \cup {UnknownToken} : delete_api_token(u, t)

AuthMcpPost ==
    \E a \in AuthHeaders, p \in {"p1", "p3"}, b \in AuthBodies :
        /\ (b.name = "create_document") => nextDoc <= MaxAgentDocs
        /\ mcp_endpoint(a, p, "application/json", b)

NextAuth ==
    \/ AuthCreateApiToken
    \/ AuthDeleteApiToken
    \/ AuthMcpPost

SpecAuth == InitAuth /\ [][NextAuth]_vars

\* ------------------------------------------------------------ claims C6, C7
\* the header has the form "Bearer <token>" and names a stored token that
\* is not revoked
LiveBearer(a) ==
    /\ a.given
    /\ Len(a.parts) = 2
    /\ a.parts[1] \in {"Bearer", "bearer"}
    /\ a.parts[2] \in DOMAIN tokens
    /\ tokens[a.parts[2]].deleted_at = NULL

\* the answer is a bare HTTP error of the given status: no tool handler ran
\* and no stored data changed
TurnedAway(status) ==
    /\ resp'.status = status
    /\ resp'.rpc.kind = "none"
    /\ UNCHANGED <<userVars, docVars, libVars, tokenVars>>

Presents(r, t) ==
    /\ r.op = "mcp"
    /\ r.info.authorization.given
    /\ Len(r.info.authorization.parts) >= 2
    /\ r.info.authorization.parts[2] = t

\* C7: once DELETE /api/v1/api-tokens/{id} has revoked a token, no
\* operation brings it back (it stays stored and revoked), and every MCP
\* request presenting it is answered 401.
C7_RevokedForever ==
    [][\A t \in DOMAIN tokens :
          tokens[t].deleted_at # NULL =>
            /\ t \in DOMAIN tokens'
            /\ tokens'[t].deleted_at # NULL
            /\ Presents(resp', t) => resp'.status = 401]_vars

\* C7 witness: a token was revoked, a newer token was created and is live,
\* a second delete of the revoked token was tried before, and the revoked
\* token has just been turned away
C7_Witness ==
    /\ resp.op = "mcp"
    /\ resp.status = 401
    /\ resp.info.authorization.parts = <<"Bearer", 1>>
    /\ resp.info.project_id = "p1"
    /\ 1 \in DOMAIN tokens
    /\ tokens[1].deleted_at # NULL
    /\ tokens[1].user_id = "u1"
    /\ 2 \in DOMAIN tokens
    /\ tokens[2].deleted_at = NULL
    /\ tokens[2].user_id = "u1"

\* ----------------------------------------------- specification: agent tools
\* One live token of u1.  Documents are created through the REST route
\* (not editable by agents) in two projects and through the create_document
\* tool; the REST update sets and clears editable_by_agent; every JSON-RPC
\* method and tool is called on project p1.
InitAgent ==
    /\ projects = InitProjects
    /\ members = InitMembers
    /\ invitations = Empty
    /\ sessions = Empty
    /\ docs = Empty
    /\ nextDoc = 1
    /\ templates = Empty
    /\ nextTemplate = 1
    /\ categories = {}
    /\ tokens = [t \in {1} |-> ApiToken("u1")]
    /\ nextToken = 2
    /\ resp = NoResponse

AgentHeader == Header(<<"Bearer", 1>>)

\* a markdown text with one embedded image; a whiteboard scene "11"
AgentCreatePayloads(p) ==
    {[name |-> "doc", type |-> "markdown",
      content |-> Content("markdown", <<Img(1)>>, <<>>), parent_id |-> NULL]}
    \cup (IF p = "p1"
          THEN {[name |-> "doc", type |-> "whiteboard",
                 content |-> Content("raw", <<Txt(1), Txt(1)>>, <<>>),
                 parent_id |-> NULL]}
          ELSE {})

AgentCreateDocument ==
    /\ nextDoc <= MaxAgentDocs
    /\ \E p \in {"p1", "p2"} : \E payload \in AgentCreatePayloads(p) :
          create_document("u1", p, payload)

AgentSetEditable ==
    \E d \in {x \in DOMAIN docs : docs[x].project_id = "p1"}, e \in BOOLEAN :
        update_document("u1", "p1", d,
            [set |-> {"editable_by_agent"}, name |-> "doc", content |-> DefaultContent,
             parent_id |-> NULL, order |-> 0, editable_by_agent |-> e])

RpcIds == {7, 8}

\* submitted contents: the JSON number 1, and the placeholder [image:0]
AgentContents == {<<Txt(1)>>, <<Ph(0)>>}

AgentDocIds == DOMAIN docs \cup {UnknownDocId, BadUuid}

\* tool calls; the request id varies on the calls flagged TRUE
AgentCalls ==
    {<<"list_documents", NoArguments, FALSE>>, <<"delete_document", NoArguments, TRUE>>}
    \cup {<<"get_document", Arguments(d, BadUuid, "", "", <<>>), TRUE>> : d \in AgentDocIds}
    \cup {<<"edit_document", Arguments(BadUuid, d, "", "", c), FALSE>> :
            d \in AgentDocIds, c \in AgentContents}
    \cup {<<"create_document", Arguments(BadUuid, BadUuid, "doc", t, c), FALSE>> :
            t \in {"markdown", "whiteboard", "diagram"}, c \in AgentContents}

AgentBodies ==
    {MalformedBody}
    \cup {Request(7, m, "", NoArguments) :
            m \in {"initialize", "tools/list", "resources/list"}}
    \cup {Request(i, "tools/call", c[1], c[2]) :
            i \in RpcIds, c \in {x \in AgentCalls : x[3]}}
    \cup {Request(7, "tools/call", c[1], c[2]) : c \in AgentCalls}

AgentMcpPost ==
    \E b \in AgentBodies :
        /\ (b.name = "create_document") => nextDoc <= MaxAgentDocs
        /\ mcp_endpoint(AgentHeader, "p1", "application/json", b)

NextAgent ==
    \/ AgentCreateDocument
    \/ AgentSetEditable
    \/ AgentMcpPost

SpecAgent == InitAgent /\ [][NextAgent]_vars

\* ------------------------------------------------------ claims C8, C9, C10
\* the request got past authentication and the project check, its body is
\* JSON, and it is a tools/call of the named tool
Calls(r, tool_name) ==
    /\ r.op = "mcp"
    /\ verify_project_access(r.info.authorization, r.info.project_id).status = 0
    /\ r.info.body.json
    /\ r.info.body.method = "tools/call"
    /\ r.info.body.name = tool_name

\* an edit_document call on a stored document of the addressed project
EditsStored(r) ==
    /\ Calls(r, "edit_document")
    /\ r.info.body.arguments.document_id \in DOMAIN docs
    /\ docs[r.info.body.arguments.document_id].project_id = r.info.project_id

\* the call succeeded and stored, for document d, the submitted content: in
\* a markdown document the text with every placeholder that indexes a saved
\* image replaced by that image, in a whiteboard the parsed JSON; nothing
\* else changed
Stored(r, d) ==
    LET c == r.info.body.arguments.content
    IN /\ r.status = 200
       /\ r.rpc.kind = "result"
       /\ DOMAIN docs' = DOMAIN docs
       /\ \A x \in DOMAIN docs \ {d} : docs'[x] = docs[x]
       /\ docs'[d] = [docs[d] EXCEPT !.content = docs'[d].content]
       /\ docs'[d].content.images = <<>>
       /\ docs[d].type = "markdown" =>
            /\ docs'[d].content.key = "markdown"
            /\ Len(docs'[d].content.val) = Len(c)
            /\ \A i \in 1..Len(c) :
                 docs'[d].content.val[i] =
                    IF c[i].t = "ph" /\ c[i].v < Len(docs[d].content.images)
                    THEN Img(docs[d].content.images[c[i].v + 1])
                    ELSE c[i]
       /\ docs[d].type = "whiteboard" =>
            /\ docs'[d].content.key = "raw"
            /\ docs'[d].content.val = c

\* the call was answered with a JSON-RPC error and stored nothing
Refused(r) ==
    /\ r.status = 200
    /\ r.rpc.kind = "error"
    /\ docs' = docs
    /\ nextDoc' = nextDoc

\* C8 as stated: an edit_document call on a stored document of the
\* addressed project succeeds and stores the submitted content if and only
\* if editable_by_agent is true when the call is handled; when it is false
\* the call returns the 'not editable by agents' error and stores nothing.
C8_EditIffEditable ==
    [][EditsStored(resp') =>
        LET d == resp'.info.body.arguments.document_id
        IN IF docs[d].editable_by_agent
           THEN Stored(resp', d)
           ELSE Refused(resp') /\ resp'.rpc.message = NotEditable]_vars

\* C8, amended: the call succeeds and stores the submitted content if and
\* only if editable_by_agent is true and, for a whiteboard, the submitted
\* content is valid JSON; otherwise it returns a JSON-RPC error and stores
\* nothing, the 'not editable by agents' error whenever the flag is false.
C8_EditIffEditableAndValid ==
    [][EditsStored(resp') =>
        LET d == resp'.info.body.arguments.document_id
            c == resp'.info.body.arguments.content
        IN IF docs[d].editable_by_agent /\ (docs[d].type = "markdown" \/ IsJson(c))
           THEN Stored(resp', d)
           ELSE /\ Refused(resp')
                /\ ~docs[d].editable_by_agent => resp'.rpc.message = NotEditable
                /\ docs[d].editable_by_agent =>
                     resp'.rpc.message = "Whiteboard content must be valid JSON"]_vars

\* C8 witness: a document made through the REST route (only those hold an
\* image, and they are not editable at first) has had its images saved by
\* get_document and is now editable, and an edit_document call submitting
\* the placeholder has succeeded: the stored markdown is the submitted one
\* with the image back in place
C8_Witness ==
    /\ resp.op = "mcp"
    /\ resp.rpc.kind = "result"
    /\ resp.info.body.name = "edit_document"
    /\ resp.info.body.arguments.content = <<Ph(0)>>
    /\ resp.info.body.arguments.document_id \in DOMAIN docs
    /\ LET d == docs[resp.info.body.arguments.document_id]
       IN /\ d.type = "markdown"
          /\ d.editable_by_agent
          /\ d.content = Content("markdown", <<Img(1)>>, <<>>)

\* a tools/call that fails, by the request and the stored documents alone
ToolFails(b, p) ==
    LET a == b.arguments
        missing(d) == d = BadUuid \/ d \notin DOMAIN docs \/ docs[d].project_id # p
    IN \/ b.name \notin {"list_documents", "search_documents", "get_document",
                         "edit_document", "create_document"}
       \/ b.name = "get_document" /\ missing(a.id)
       \/ /\ b.name = "edit_document"
          /\ \/ missing(a.document_id)
             \/ ~docs[a.document_id].editable_by_agent
             \/ docs[a.document_id].type = "whiteboard" /\ ~IsJson(a.content)
       \/ /\ b.name = "create_document"
          /\ \/ a.type \notin {"markdown", "whiteboard"}
             \/ a.type = "whiteboard" /\ ~IsJson(a.content)

\* C9: for an authenticated, authorized request with well-formed JSON and
\* method tools/call, every failure (unknown tool, document not found,
\* invalid document id, invalid document type, invalid whiteboard JSON,
\* document not editable) is answered HTTP 200 with a JSON-RPC error of code
\* -32603 that carries the request's id and has no result member.
C9_ToolFailureIsRpcError ==
    [][(/\ resp'.op = "mcp"
        /\ Calls(resp', resp'.info.body.name)
        /\ ToolFails(resp'.info.body, resp'.info.project_id))
       => (/\ resp'.status = 200
           /\ resp'.rpc.kind = "error"
           /\ resp'.rpc.code = -32603
           /\ resp'.rpc.id = resp'.info.body.id
           /\ docs' = docs)]_vars

\* C9 witness: a get_document naming a document of another project was
\* answered with the JSON-RPC error, under the request's id 8
C9_Witness ==
    /\ resp.op = "mcp"
    /\ resp.status = 200
    /\ resp.rpc.kind = "error"
    /\ resp.rpc.code = -32603
    /\ resp.rpc.id = 8
    /\ resp.rpc.message = "Document not found"
    /\ resp.info.body.name = "get_document"
    /\ resp.info.body.arguments.id \in DOMAIN docs
    /\ docs[resp.info.body.arguments.id].project_id = "p2"

\* C10: an authenticated, authorized request with well-formed JSON whose
\* method is none of initialize, tools/list and tools/call is answered with
\* HTTP status 400.
C10_UnknownMethodIs400 ==
    [][(/\ resp'.op = "mcp"
        /\ verify_project_access(resp'.info.authorization, resp'.info.project_id).status = 0
        /\ resp'.info.body.json
        /\ resp'.info.body.method \notin {"initialize", "tools/list", "tools/call"})
       => resp'.status = 400]_vars

\* -------------------------------------------------- REST: template listing
\* no category filter: category_name not given, or naming no stored category
NoCategory == ""

\* variant: team-visible templates are shown to every user
find_visible_for_user_TeamForAll(user_id, user_team_ids, category_id, only_root) ==
    {t \in DOMAIN templates :
        /\ \/ templates[t].visibility = "public"
           \/ templates[t].visibility = "team"
           \/ templates[t].visibility = "private" /\ templates[t].user_id = user_id
        /\ only_root => templates[t].parent_id = NULL
        /\ category_id # NoCategory => templates[t].category = category_id}

\* TemplateRepository.find_visible_for_user: the WHERE clause
find_visible_for_user(user_id, user_team_ids, category_id, only_root) ==
    {t \in DOMAIN templates :
        /\ \/ templates[t].visibility = "public"
           \/ templates[t].visibility = "team" /\ templates[t].team_id \in user_team_ids
           \/ templates[t].visibility = "private" /\ templates[t].user_id = user_id
        /\ only_root => templates[t].parent_id = NULL
        /\ category_id # NoCategory => templates[t].category = category_id}

\* GET /api/v1/library/templates/ ; the answer's result is the set of the
\* templates listed
list_templates(u, category_name, only_root) ==
    LET category_id == IF category_name # "" /\ category_name \in categories
                       THEN category_name ELSE NoCategory
    IN /\ resp' = [op |-> "list_templates",
                   info |-> [user |-> u, category_name |-> category_name,
                             only_root |-> only_root],
                   status |-> 200, detail |-> "",
                   result |-> find_visible_for_user(u, teams(u), category_id, only_root)]
       /\ UNCHANGED <<userVars, docVars, libVars, tokenVars, sessions>>

\* variant: a template the caller may not see is reported as missing
get_template_DeniedAsMissing(u, template_id) ==
    LET req == [user |-> u, template_id |-> template_id]
    IN IF template_id \notin DOMAIN templates \/ ~CanAccess(u, templates[template_id])
       THEN Reject("get_template", req, 404, "Template not found")
       ELSE Reject("get_template", req, 200, "")

\* GET /api/v1/library/templates/{template_id}; nothing is written, whatever
\* the answer
\* PUT /library/templates/{id}: only name, content and category can change;
\* a string content is decoded once, as create_template does
update_template(u, template_id, payload) ==
    LET req == [user |-> u, template_id |-> template_id, set |-> payload.set]
    IN IF template_id \notin DOMAIN templates
       THEN Reject("update_template", req, 404, "Template not found")
       ELSE IF templates[template_id].team_id \notin teams(u)
       THEN Reject("update_template", req, 403,
                   "Only the owning team can update this template")
       ELSE /\ templates' = [templates EXCEPT ![template_id] =
                  [@ EXCEPT
                     !.name = IF "name" \in payload.set THEN payload.name ELSE @,
                     !.content = IF "content" \in payload.set
                                 THEN DocumentContentToTemplate(payload.content) ELSE @,
                     !.category = IF "category_name" \in payload.set
                                  THEN payload.category_name ELSE @]]
            /\ categories' = IF "category_name" \in payload.set
                             THEN categories \cup {payload.category_name}
                             ELSE categories
            /\ resp' = Response("update_template", req, 200, "")
            /\ UNCHANGED <<userVars, docVars, nextTemplate, tokenVars, sessions>>

get_template(u, template_id) ==
    LET req == [user |-> u, template_id |-> template_id]
    IN IF template_id \notin DOMAIN templates
       THEN Reject("get_template", req, 404, "Template not found")
       ELSE IF ~CanAccess(u, templates[template_id])
       THEN Reject("get_template", req, 403, "Cannot access this template")
       ELSE Reject("get_template", req, 200, "")

\* DELETE /api/v1/teams/{team_id}/members/{user_id}
remove_team_member(u, team_id, user_id) ==
    LET req == [team_id |-> team_id, user_id |-> user_id]
        op == "remove_team_member"
    IN IF team_id \notin TeamIds THEN Reject(op, req, 404, "Team not found")
       ELSE IF team_id \notin teams(u) THEN Reject(op, req, 403, "Not a member of this team")
       ELSE IF ~is_admin(team_id, u)
       THEN Reject(op, req, 403, "Only administrators can remove members")
       ELSE IF user_id = u
       THEN Reject(op, req, 400, "You cannot remove yourself from the team")
       ELSE IF user_id \notin Users THEN Reject(op, req, 404, "User not found")
       ELSE IF team_id \notin teams(user_id)
       THEN Reject(op, req, 404, "User is not a member of this team")
       ELSE /\ members' = {m \in members : ~(m.user = user_id /\ m.team = team_id)}
            /\ resp' = Response(op, req, 204, "")
            /\ UNCHANGED <<projects, invitations, docVars, libVars, tokenVars, sessions>>

\* --------------------------------------------- specification: the library
\* u1 administers both teams, u2 is a member of t2 until u1 removes them.
\* Project p1 (team t1) holds a document with one child, project p2 (team
\* t2) one document; both users turn documents into templates of every
\* visibility, delete templates, and list the library.
InitLibMembers ==
    {[user |-> "u1", team |-> "t1", role |-> "administrator"],
     [user |-> "u1", team |-> "t2", role |-> "administrator"],
     [user |-> "u2", team |-> "t2", role |-> "member"]}

InitLibDocs ==
    [d \in {1, 2, 3} |->
        Document("doc", IF d = 3 THEN "p2" ELSE "p1", "markdown", DefaultContent,
                 IF d = 2 THEN 1 ELSE NULL, 0, FALSE)]

InitLib ==
    /\ projects = InitProjects
    /\ members = InitLibMembers
    /\ invitations = Empty
    /\ sessions = Empty
    /\ docs = InitLibDocs
    /\ nextDoc = 4
    /\ templates = Empty
    /\ nextTemplate = 1
    /\ categories = {}
    /\ tokens = Empty
    /\ nextToken = 1
    /\ resp = NoResponse

LibTemplatePayloads(u) ==
    [document_id : {1, 3}, include_children : BOOLEAN, name : {"tpl"},
     category_name : {IF u = "u1" THEN "c1" ELSE "c2"},
     visibility : {"private", "team", "public"}]

LibCreateTemplate ==
    /\ nextTemplate <= MaxLibTemplates
    /\ \E u \in Users : \E payload \in LibTemplatePayloads(u) :
          create_template(u, payload, [d \in DOMAIN docs |-> d])

LibDeleteTemplate ==
    \E u \in Users, t \in DOMAIN templates : delete_template(u, t)

LibRemoveTeamMember ==
    \E u \in Users, t \in TeamIds, x \in Users : remove_team_member(u, t, x)

LibListTemplates ==
    \E u \in Users, c \in {"", "c1", "c2"}, only_root \in BOOLEAN :
        list_templates(u, c, only_root)

LibGetTemplate ==
    \E u \in Users, t \in DOMAIN templates \cup {nextTemplate} : get_template(u, t)

NextLib ==
    \/ LibCreateTemplate
    \/ LibDeleteTemplate
    \/ LibRemoveTeamMember
    \/ LibListTemplates
    \/ LibGetTemplate

SpecLib == InitLib /\ [][NextLib]_vars

\* ----------------------------------------------------------------- claim C5
\* the user may see template t: it is public, or team-visible and of one of
\* the user's teams, or private and the user's own
MaySee(u, t) ==
    \/ templates[t].visibility = "public"
    \/ /\ templates[t].visibility = "team"
       /\ \E m \in members : m.user = u /\ m.team = templates[t].team_id
    \/ templates[t].visibility = "private" /\ templates[t].user_id = u

C18_DetailDistinguishes ==
    /\ resp.op = "get_template" =>
          resp.status =
             IF resp.info.template_id \notin DOMAIN templates THEN 404
             ELSE IF ~MaySee(resp.info.user, resp.info.template_id) THEN 403
             ELSE 200
    /\ resp.op = "list_templates" =>
          /\ resp.status = 200
          /\ \A t \in resp.result : MaySee(resp.info.user, t)

\* C18 witness: u2, no longer in team t2, was refused a team-visible
\* template of t2 that is stored
C18_Witness ==
    /\ resp.op = "get_template"
    /\ resp.status = 403
    /\ resp.info.user = "u2"
    /\ teams("u2") = {}
    /\ resp.info.template_id \in DOMAIN templates
    /\ templates[resp.info.template_id].visibility = "team"
    /\ templates[resp.info.template_id].team_id = "t2"

\* ------------------------------------------------ specification: conversion
\* Project p1 holds a document with two children (a whiteboard, and a
\* document posted with a twice-quoted string as its content), as three
\* POSTs of create_document leave them.  u1 reorders the children,
\* both users turn documents into templates (alone or with their subtree),
\* u1 deletes templates, and both users instantiate templates into the
\* projects.
InitConvDocs ==
    [d \in {1, 2, 3} |->
        IF d = 1 THEN Document("a", "p1", "markdown", DefaultContent, NULL, 0, FALSE)
        ELSE IF d = 2
        THEN Document("b", "p1", "whiteboard", Content("raw", <<Txt(1)>>, <<>>), 1, 0, FALSE)
        ELSE Document("c", "p1", "markdown", JsonText(2), 1, 0, FALSE)]

InitConvert ==
    /\ projects = InitProjects
    /\ members = InitMembers
    /\ invitations = Empty
    /\ sessions = Empty
    /\ docs = InitConvDocs
    /\ nextDoc = 4
    /\ templates = Empty
    /\ nextTemplate = 1
    /\ categories = {}
    /\ tokens = Empty
    /\ nextToken = 1
    /\ resp = NoResponse

\* the rows below n: the only rows whose order of arrival the recursion
\* over children can observe
DescendantRows(tbl, n) ==
    IF n \in DOMAIN tbl THEN [d \in Descendants(tbl, n) |-> tbl[d]] ELSE Empty

ConvOrderPayloads ==
    [set : {{"order"}}, name : {"doc"}, content : {DefaultContent},
     parent_id : {NULL}, order : {0, 2}, editable_by_agent : {FALSE}]

\* the first child is moved behind the second (order 2, leaving a gap) or
\* back to a tie with it (order 0)
ConvSetOrder ==
    \E payload \in ConvOrderPayloads : update_document("u1", "p1", 2, payload)

\* u1 turns the document with children into a template, with its subtree
\* for the team or alone for private use; u1 names a document never
\* stored; u2 is not in the team of p1
ConvTemplatePayloads(u) ==
    {x \in [document_id : IF u = "u1" THEN {1, UnknownDocId} ELSE {1},
            include_children : IF u = "u1" THEN BOOLEAN ELSE {TRUE},
            name : {"tpl"}, category_name : {"c1"},
            visibility : {"team", "private"}] :
        x.visibility = IF x.include_children THEN "team" ELSE "private"}

ConvCreateTemplate ==
    \E u \in Users : \E payload \in ConvTemplatePayloads(u) :
        \E rank \in RowOrders(DescendantRows(docs, payload.document_id)) :
            create_template(u, payload, rank)

ConvDeleteTemplate ==
    \E t \in DOMAIN templates : delete_template("u1", t)

\* u1 instantiates into the other team's project; u2 may enter p2 but not
\* p1, where the gate turns the request away before it reads the template
ConvCallers == {<<"u1", "p2">>, <<"u2", "p2">>, <<"u2", "p1">>}

ConvTemplatesFor(c) ==
    IF ProjectGate(c[1], c[2]) # 0 THEN {nextTemplate}
    ELSE IF c[1] = "u1" THEN DOMAIN templates \cup {nextTemplate}
    ELSE DOMAIN templates

ConvCreateDocumentFromTemplate ==
    \E c \in ConvCallers : \E t \in ConvTemplatesFor(c) :
        \E rank \in RowOrders(DescendantRows(templates, t)) :
            create_document_from_template(c[1], c[2], t, rank)

NextConvert ==
    \/ ConvSetOrder
    \/ ConvCreateTemplate
    \/ ConvDeleteTemplate
    \/ ConvCreateDocumentFromTemplate

SpecConvert == InitConvert /\ [][NextConvert]_vars

\* ---------------------------------------------------------------- claim C11
\* f maps the subtree of root in table src one-to-one onto the new rows N
\* of table dst, the copy of root having no parent and the copy of every
\* other node having the copy of that node's parent as its parent
Mirrors(f, src, root, dst, N) ==
    /\ \A a, b \in DOMAIN f : a # b => f[a] # f[b]
    /\ {f[a] : a \in DOMAIN f} = N
    /\ \A a \in DOMAIN f :
          dst[f[a]].parent_id = IF a = root THEN NULL ELSE f[src[a].parent_id]

\* C11: instantiating a template subtree of n nodes into a project creates
\* exactly n new documents, all in that project, in bijection with the
\* template nodes: each document has its template's name, type and content,
\* the document of the root template has no parent and every other
\* document's parent is the document created for its template's parent (a
\* template without children yields exactly one document); the documents
\* stored before are left as they were.
C11_InstantiateIsomorphic ==
    [][(resp'.op = "create_document_from_template" /\ resp'.status = 201) =>
          LET root == resp'.info.template_id
              S == Subtree(templates, root)
              N == DOMAIN docs' \ DOMAIN docs
          IN /\ root \in DOMAIN templates
             /\ Cardinality(N) = Cardinality(S)
             /\ \A d \in DOMAIN docs : d \in DOMAIN docs' /\ docs'[d] = docs[d]
             /\ \E f \in [S -> N] :
                   /\ Mirrors(f, templates, root, docs', N)
                   /\ \A t \in S :
                         /\ docs'[f[t]].project_id = resp'.info.project_id
                         /\ docs'[f[t]].name = templates[t].name
                         /\ docs'[f[t]].type = templates[t].type
                         /\ docs'[f[t]].content = templates[t].content]_vars

\* ---------------------------------------------------------------- claim C12
\* under the bijection f, the k children created under the copy of every
\* node carry the order values 0..k-1, ascending in the stored order of the
\* source siblings
OrdersNormalised(f, src, dst) ==
    \A s \in DOMAIN f :
        LET K == children(src, s) \cap DOMAIN f
            K2 == children(dst, f[s])
        IN /\ K2 = {f[c] : c \in K}
           /\ {dst[c].order : c \in K2} = 0 .. (Cardinality(K) - 1)
           /\ \A a, b \in K :
                 src[a].order < src[b].order => dst[f[a]].order < dst[f[b]].order

NoTemplateFor(u, t) == t \notin DOMAIN templates \/ ~MaySee(u, t)

\* no such document, or a document whose project's team is not the actor's
NoDocumentFor(u, d) ==
    \/ d \notin DOMAIN docs
    \/ ~\E m \in members : m.user = u /\ m.team = projects[docs[d].project_id]

\* C13: a create-document-from-template or create-template-from-document
\* request whose source node does not exist, or whose actor lacks access to
\* it (template not accessible under the visibility rule; document's project
\* team not among the actor's teams), is rejected with 404 or 403 before any
\* write: no document, no template and no category is created.
C13_NoSourceNoWrite ==
    [][/\ (/\ resp'.op = "create_document_from_template"
           /\ NoTemplateFor(resp'.info.user, resp'.info.template_id))
            => /\ resp'.status \in {403, 404}
               /\ docs' = docs /\ templates' = templates /\ categories' = categories
       /\ (/\ resp'.op = "create_template"
           /\ NoDocumentFor(resp'.info.user, resp'.info.document_id))
            => /\ resp'.status \in {403, 404}
               /\ docs' = docs /\ templates' = templates /\ categories' = categories]_vars

\* C13 witness: u2, who may write to p2, was refused a private template of
\* u1 while no document is stored in p2
C13_Witness ==
    /\ resp.op = "create_document_from_template"
    /\ resp.status = 403
    /\ resp.info.user = "u2"
    /\ resp.info.project_id = "p2"
    /\ resp.info.template_id \in DOMAIN templates
    /\ templates[resp.info.template_id].visibility = "private"
    /\ templates[resp.info.template_id].user_id = "u1"
    /\ \A d \in DOMAIN docs : docs[d].project_id # "p2"

\* ---------------------------------------------------------------- claim C14
\* C14: creating a template from a document with include_children false
\* creates exactly one template, with parent_id null, however many
\* descendants the document has; with include_children true it creates
\* exactly one template per document of the source subtree, with parent
\* links mirroring the source's.
C14_IncludeChildren ==
    [][(resp'.op = "create_template" /\ resp'.status = 201) =>
          LET root == resp'.info.document_id
              N == DOMAIN templates' \ DOMAIN templates
          IN /\ root \in DOMAIN docs
             /\ \A t \in DOMAIN templates :
                   t \in DOMAIN templates' /\ templates'[t] = templates[t]
             /\ IF resp'.info.include_children
                THEN /\ Cardinality(N) = Cardinality(Subtree(docs, root))
                     /\ \E f \in [Subtree(docs, root) -> N] :
                           Mirrors(f, docs, root, templates', N)
                ELSE /\ Cardinality(N) = 1
                     /\ \A t \in N : templates'[t].parent_id = NULL]_vars

\* C14 witness: the document with two children was turned into a template
\* without its children, and that one parent-less, childless template is
\* all the library holds
C14_Witness ==
    /\ resp.op = "create_template"
    /\ resp.status = 201
    /\ ~resp.info.include_children
    /\ Cardinality(children(docs, resp.info.document_id)) = 2
    /\ Cardinality(DOMAIN templates) = 1
    /\ \A t \in DOMAIN templates : templates[t].parent_id = NULL

\* --------------------------------------------- specification: saved images
\* Project p1 holds a markdown document whose text embeds two images, the
\* second written loosely, and a child document with one image, as two POSTs
\* of create_document leave them.  u1 sets and clears editable_by_agent; the
\* agent reads both documents and edits the first.
InitImageDocs ==
    [d \in {1, 2} |->
        IF d = 1
        THEN Document("doc", "p1", "markdown",
                      Content("markdown", <<Img(2), Txt(0), ImgLoose(1)>>, <<>>),
                      NULL, 0, FALSE)
        ELSE Document("doc", "p1", "markdown",
                      Content("markdown", <<Img(1)>>, <<>>), 1, 0, FALSE)]

InitImages ==
    /\ projects = InitProjects
    /\ members = InitMembers
    /\ invitations = Empty
    /\ sessions = Empty
    /\ docs = InitImageDocs
    /\ nextDoc = 3
    /\ templates = Empty
    /\ nextTemplate = 1
    /\ categories = {}
    /\ tokens = [t \in {1} |-> ApiToken("u1")]
    /\ nextToken = 2
    /\ resp = NoResponse

ImgSetEditable ==
    \E e \in BOOLEAN :
        update_document("u1", "p1", 1,
            [set |-> {"editable_by_agent"}, name |-> "doc", content |-> DefaultContent,
             parent_id |-> NULL, order |-> 0, editable_by_agent |-> e])

ImgGetDocument ==
    \E d \in DOMAIN docs :
        mcp_endpoint(AgentHeader, "p1", "application/json",
                     Request(7, "tools/call", "get_document",
                             Arguments(d, BadUuid, "", "", <<>>)))

\* submitted markdown: the second saved image only, both in swapped order,
\* plain text, a new image
ImgContents == {<<Ph(1)>>, <<Ph(1), Ph(0)>>, <<Txt(0)>>, <<Img(3)>>}

ImgEditDocument ==
    \E c \in ImgContents :
        mcp_endpoint(AgentHeader, "p1", "application/json",
                     Request(7, "tools/call", "edit_document",
                             Arguments(BadUuid, 1, "", "", c)))

NextImages ==
    \/ ImgSetEditable
    \/ ImgGetDocument
    \/ ImgEditDocument

SpecImages == InitImages /\ [][NextImages]_vars

\* ---------------------------------------------------------------- claim C15
\* C15: for a markdown document whose stored content carries a recorded
\* images list I, after a successful edit_document call the stored content
\* still carries the images list I, whether or not the submitted markdown
\* references those images (and so after any sequence of such calls).
C15_ImagesRetained ==
    [][(/\ EditsStored(resp')
        /\ resp'.rpc.kind = "result"
        /\ docs[resp'.info.body.arguments.document_id].type = "markdown"
        /\ docs[resp'.info.body.arguments.document_id].content.images # <<>>)
       => docs'[resp'.info.body.arguments.document_id].content.images =
             docs[resp'.info.body.arguments.document_id].content.images]_vars

\* ---------------------------------------------------------------- claim C16
\* a get_document call answered with a result, on a stored markdown document
\* whose stored markdown embeds at least one image
ReadsEmbedded(r) ==
    /\ Calls(r, "get_document")
    /\ r.rpc.kind = "result"
    /\ r.info.body.arguments.id \in DOMAIN docs
    /\ docs[r.info.body.arguments.id].type = "markdown"
    /\ \E i \in DOMAIN docs[r.info.body.arguments.id].content.val :
          docs[r.info.body.arguments.id].content.val[i].t = "img"

\* the records of the images embedded in a markdown text, from left to right
EmbeddedRecords(markdown) ==
    LET at == {i \in DOMAIN markdown : markdown[i].t = "img"}
        nth(k) == CHOOSE i \in at : Cardinality({j \in at : j < i}) = k - 1
    IN [k \in 1..Cardinality(at) |->
          IF markdown[nth(k)].v < 0 THEN -markdown[nth(k)].v ELSE markdown[nth(k)].v]

CodecTokens == {Txt(0), Img(1), Img(2), ImgLoose(1), Ph(0), Ph(1)}

CodecInputs == UNION {[1..n -> CodecTokens] : n \in 0..MaxMarkdownLen}

CodecState(stage, markdown, stripped, images, restored) ==
    [op |-> "codec", stage |-> stage, info |-> [markdown |-> markdown],
     stripped |-> stripped, images |-> images, restored |-> restored]

InitCodec ==
    /\ projects = InitProjects
    /\ members = InitMembers
    /\ invitations = Empty
    /\ sessions = Empty
    /\ docs = Empty
    /\ nextDoc = 1
    /\ templates = Empty
    /\ nextTemplate = 1
    /\ categories = {}
    /\ tokens = Empty
    /\ nextToken = 1
    /\ \E markdown \in CodecInputs :
          resp = CodecState("input", markdown, <<>>, <<>>, <<>>)

CodecExtract ==
    /\ resp.stage = "input"
    /\ LET out == extract_images_from_markdown(resp.info.markdown)
       IN resp' = CodecState("extracted", resp.info.markdown, out.markdown,
                             out.images, <<>>)
    /\ UNCHANGED <<userVars, docVars, libVars, tokenVars, sessions>>

CodecRestore ==
    /\ resp.stage = "extracted"
    /\ resp' = CodecState("restored", resp.info.markdown, resp.stripped, resp.images,
                          restore_images_to_markdown(resp.stripped, resp.images))
    /\ UNCHANGED <<userVars, docVars, libVars, tokenVars, sessions>>

NextCodec ==
    \/ CodecExtract
    \/ CodecRestore

SpecCodec == InitCodec /\ [][NextCodec]_vars

\* ---------------------------------------------------------------- claim C17
\* a markdown text with every image tag in canonical formatting: one blank
\* before the title, no empty title
Canonical(markdown) ==
    [i \in DOMAIN markdown |->
        IF markdown[i].t = "img" /\ markdown[i].v < 0
        THEN Img(-markdown[i].v)
        ELSE markdown[i]]

\* C17: for every markdown text M with zero or more well-formed embedded
\* images, whatever its other text (text of the shape [image:N] included),
\* restoring the placeholders of the stripped markdown of M with the images
\* extracted from M reproduces M up to canonical image-tag formatting.
C17_RoundTrip ==
    resp.stage = "restored" => resp.restored = Canonical(resp.info.markdown)

\* ------------------------------------------- specification: response framing
\* One live token of u1; documents are created through the REST route; the
\* agent posts every kind of body to p1 under every Accept header.
StreamBodies ==
    {MalformedBody,
     Request(7, "initialize", "", NoArguments),
     Request(7, "tools/list", "", NoArguments),
     Request(7, "resources/list", "", NoArguments),
     Request(7, "tools/call", "list_documents", NoArguments),
     Request(7, "tools/call", "delete_document", NoArguments)}
    \cup {Request(7, "tools/call", "get_document", Arguments(d, BadUuid, "", "", <<>>)) :
            d \in DOMAIN docs \cup {UnknownDocId}}
    \cup {Request(7, "tools/call", "create_document",
                  Arguments(BadUuid, BadUuid, "doc", t, <<Txt(1)>>)) :
            t \in {"markdown", "diagram"}}

StreamCreateDocument ==
    /\ nextDoc <= MaxAgentDocs
    /\ \E p \in {"p1", "p2"} : \E payload \in AgentCreatePayloads(p) :
          create_document("u1", p, payload)

StreamMcpPost ==
    \E accept \in AcceptHeaders, b \in StreamBodies :
        /\ (b.name = "create_document") => nextDoc <= MaxAgentDocs
        /\ mcp_endpoint(AgentHeader, "p1", accept, b)

NextStream ==
    \/ StreamCreateDocument
    \/ StreamMcpPost

SpecStream == InitAgent /\ [][NextStream]_vars

\* ---------------------------------------------------------------- claim C19
\* C19: every JSON-RPC response to an authenticated, authorized, well-formed
\* request, whether it carries a result or an error, is delivered as exactly
\* one 'data: <json>' event-stream frame when the request's Accept header
\* selects text/event-stream, and as a plain JSON body when it does not.
C19_FramingFollowsAccept ==
    [][(/\ resp'.op = "mcp"
        /\ verify_project_access(resp'.info.authorization, resp'.info.project_id).status = 0
        /\ resp'.info.body.json)
       => (/\ resp'.rpc.kind \in {"result", "error"}
           /\ resp'.rpc.sse =
                 (resp'.info.accept \in {"text/event-stream",
                                         "application/json, text/event-stream"}))]_vars

\* ------------------------------------------- specification: document listing
\* One live token of u1, who belongs to the teams of both projects.
\* Documents are created, reparented and deleted through the REST routes in
\* both projects; the agent lists the documents of either project.
ListCallers == {<<"u1", "p1">>, <<"u1", "p2">>}

ListParents == {NULL} \cup DOMAIN docs

ListCreateDocument ==
    \E c \in ListCallers :
        \E payload \in {x \in TreeCreatePayloads : x.parent_id \in ListParents} :
            /\ create_document(c[1], c[2], payload)
            /\ nextDoc' <= MaxTreeDocs + 1

ListUpdateDocument ==
    \E c \in ListCallers :
        \E d \in DOMAIN docs,
           payload \in {x \in TreeUpdatePayloads : x.parent_id \in ListParents} :
            update_document(c[1], c[2], d, payload)

ListDeleteDocument ==
    \E c \in ListCallers : \E d \in DOMAIN docs : delete_document(c[1], c[2], d)

ListMcpPost ==
    \E p \in {"p1", "p2"} :
        mcp_endpoint(AgentHeader, p, "application/json",
                     Request(7, "tools/call", "list_documents", NoArguments))

NextList ==
    \/ ListCreateDocument
    \/ ListUpdateDocument
    \/ ListDeleteDocument
    \/ ListMcpPost

SpecList == InitAgent /\ [][NextList]_vars

\* ---------------------------------------------------------------- claim C20
\* the nodes of a listed forest, each with the node it is nested under
\* (NULL at top level), one entry per occurrence
RECURSIVE ListedNodes(_, _)
ListedNodes(nodes, parent) ==
    IF nodes = <<>> THEN <<>>
    ELSE <<[id |-> Head(nodes).id, under |-> parent]>>
         \o ListedNodes(Head(nodes).descendants, Head(nodes).id)
         \o ListedNodes(Tail(nodes), parent)

\* C20: in every reachable state the list_documents result for a project
\* contains every document of that project exactly once, the parent-less
\* documents at top level and every other document nested in its parent's
\* descendants, and contains no document of any other project.
C20_ListIsWholeProject ==
    (Calls(resp, "list_documents") /\ resp.rpc.kind = "result") =>
        LET listed == ListedNodes(resp.rpc.content, NULL)
            p == resp.info.project_id
        IN /\ \A d \in DOMAIN docs :
                 docs[d].project_id = p =>
                    Cardinality({i \in DOMAIN listed : listed[i].id = d}) = 1
           /\ \A i \in DOMAIN listed :
                 /\ listed[i].id \in DOMAIN docs
                 /\ docs[listed[i].id].project_id = p
                 /\ listed[i].under = docs[listed[i].id].parent_id

\* --------------------------------------------- REST: invitation routes
\* User.email is unique, so an address stands for its user; "x" is an
\* address with no account.  "t3" is a team id that is not stored.
Emails == Users \cup {"x"}

\* TeamInvitation(...) row; role defaults to "member"
TeamInvitation(team_id, inviter_id, invitee_email, status, role) ==
    [team_id |-> team_id, inviter_id |-> inviter_id,
     invitee_email |-> invitee_email, status |-> status, role |-> role]

\* Team.members
team_members(t) == {m.user : m \in {x \in members : x.team = t}}

\* POST /api/v1/teams/{team_id}/invitations; InvitationCreate has the one
\* field invitee_email, so the row gets the column default for role
create_invitation(u, team_id, invitee_email) ==
    LET req == [user |-> u, team_id |-> team_id, invitee_email |-> invitee_email]
        op == "create_invitation"
        id == Cardinality(DOMAIN invitations) + 1
    IN IF team_id \notin TeamIds THEN Reject(op, req, 404, "Team not found")
       ELSE IF u \notin team_members(team_id)
       THEN Reject(op, req, 403, "You are not a member of this team")
       ELSE IF \E i \in DOMAIN invitations :
                  /\ invitations[i].team_id = team_id
                  /\ invitations[i].invitee_email = invitee_email
                  /\ invitations[i].status = "pending"
       THEN Reject(op, req, 400, "Invitation already exists for this email")
       ELSE /\ invitations' = [i \in DOMAIN invitations \cup {id} |->
                  IF i = id
                  THEN TeamInvitation(team_id, u, invitee_email, "pending", "member")
                  ELSE invitations[i]]
            /\ resp' = Response(op, req, 201, "")
            /\ UNCHANGED <<projects, members, docVars, libVars, tokenVars, sessions>>

\* the checks accept_invitation and reject_invitation share; 0 when the
\* invitation may be answered
InvitationGate(u, invitation_id) ==
    IF invitation_id \notin DOMAIN invitations THEN 404
    ELSE IF invitations[invitation_id].invitee_email # u THEN 403
    ELSE IF invitations[invitation_id].status # "pending" THEN 400
    ELSE 0

InvitationGateDetail(gate) ==
    IF gate = 404 THEN "Invitation not found"
    ELSE IF gate = 403 THEN "This invitation is not for you"
    ELSE "Invitation is not pending"

\* user.teams.append(team): User.teams is a property that builds a new list
\* from team_memberships on every access, so the append changes that list
\* and no row of user_team
AppendToTeams(u, invitation) == members

\* POST /api/v1/invitations/{invitation_id}/accept
accept_invitation(u, invitation_id) ==
    LET req == [user |-> u, invitation_id |-> invitation_id]
        op == "accept_invitation"
        gate == InvitationGate(u, invitation_id)
    IN IF gate # 0 THEN Reject(op, req, gate, InvitationGateDetail(gate))
       ELSE /\ members' = AppendToTeams(u, invitations[invitation_id])
            /\ invitations' = [invitations EXCEPT ![invitation_id].status = "accepted"]
            /\ resp' = Response(op, req, 200, "")
            /\ UNCHANGED <<projects, docVars, libVars, tokenVars, sessions>>

\* POST /api/v1/invitations/{invitation_id}/reject
reject_invitation(u, invitation_id) ==
    LET req == [user |-> u, invitation_id |-> invitation_id]
        op == "reject_invitation"
        gate == InvitationGate(u, invitation_id)
    IN IF gate # 0 THEN Reject(op, req, gate, InvitationGateDetail(gate))
       ELSE /\ invitations' = [invitations EXCEPT ![invitation_id].status = "rejected"]
            /\ resp' = Response(op, req, 200, "")
            /\ UNCHANGED <<projects, members, docVars, libVars, tokenVars, sessions>>

\* ------------------------------------------- specification: invitations
\* u1 administers t1 and has invited u2 as an administrator (the row of
\* test_accept_invitation_with_role); u2 administers t2.  Members invite,
\* invitees accept or reject.
InitInviteMembers ==
    {[user |-> "u1", team |-> "t1", role |-> "administrator"],
     [user |-> "u2", team |-> "t2", role |-> "administrator"]}

InitInvitations ==
    [i \in {1} |-> TeamInvitation("t1", "u1", "u2", "pending", "administrator")]

InitInvite ==
    /\ projects = InitProjects
    /\ members = InitInviteMembers
    /\ invitations = InitInvitations
    /\ sessions = Empty
    /\ docs = Empty
    /\ nextDoc = 1
    /\ templates = Empty
    /\ nextTemplate = 1
    /\ categories = {}
    /\ tokens = Empty
    /\ nextToken = 1
    /\ resp = NoResponse

InviteCreateInvitation ==
    /\ Cardinality(DOMAIN invitations) < MaxInvitations
    /\ \E u \in Users, t \in TeamIds \cup {"t3"}, e \in Emails :
          create_invitation(u, t, e)

InviteAcceptInvitation ==
    \E u \in Users, i \in 1..(Cardinality(DOMAIN invitations) + 1) :
        accept_invitation(u, i)

InviteRejectInvitation ==
    \E u \in Users, i \in 1..(Cardinality(DOMAIN invitations) + 1) :
        reject_invitation(u, i)

NextInvite ==
    \/ InviteCreateInvitation
    \/ InviteAcceptInvitation
    \/ InviteRejectInvitation

SpecInvite == InitInvite /\ [][NextInvite]_vars

\* ---------------------------------------------------------------- claim C21
\* C21: after the invitee accepts a pending invitation with HTTP 200, the
\* invitee is a member of the invitation's team with the role recorded on
\* the invitation, and the team has one member more than before.
C21_AcceptAddsMember ==
    [][(resp'.op = "accept_invitation" /\ resp'.status = 200)
          => LET inv == invitations[resp'.info.invitation_id]
             IN /\ [user |-> resp'.info.user, team |-> inv.team_id,
                    role |-> inv.role] \in members'
                /\ Cardinality({m \in members' : m.team = inv.team_id})
                     = Cardinality({m \in members : m.team = inv.team_id}) + 1]_vars

\* ------------------------------------------- requests handled concurrently
\* Each request runs on its own AsyncSession (get_db) and is suspended at
\* every await, so the statements of several handlers interleave.  A session
\* in flight holds the objects its handler has added or assigned to
\* ("assigned": id -> the row as the handler left it), what its unit of work
\* has to send for them ("writes": id -> the columns to write), the order in
\* which they are sent, how many were sent inside its open transaction, and
\* the sessions that were in flight when it made its reads ("with").  What a
\* transaction has sent stays invisible to the other sessions until it
\* commits.
Slots == 1..MaxSessions

Table(table) == IF table = "documents" THEN docs ELSE templates

\* the unit of work's net changes: a new object is an INSERT of its row, a
\* loaded object an UPDATE of the columns whose value differs from the
\* loaded one, and an object assigned the values it was loaded with is not
\* sent at all
ChangedColumns(old, new) == [c \in {k \in DOMAIN new : old[k] # new[k]} |-> new[c]]

Dirty(tbl, assigned) ==
    [r \in {x \in DOMAIN assigned : x \notin DOMAIN tbl \/ assigned[x] # tbl[x]} |->
        IF r \notin DOMAIN tbl THEN assigned[r] ELSE ChangedColumns(tbl[r], assigned[r])]

Session(op, req, status, table, assigned, order) ==
    LET writes == Dirty(Table(table), assigned)
    IN [op |-> op, req |-> req, status |-> status, table |-> table,
        assigned |-> assigned, writes |-> writes,
        order |-> SelectSeq(order, LAMBDA r : r \in DOMAIN writes),
        flushed |-> 0, pc |-> "open",
        with |-> {x \in DOMAIN sessions : sessions[x].pc = "open"}]

IsOpen(s) == s \in DOMAIN sessions /\ sessions[s].pc = "open"

WithSession(s, session) ==
    [x \in DOMAIN sessions \cup {s} |-> IF x = s THEN session ELSE sessions[x]]

\* INSERT of a new row / UPDATE ... SET of the changed columns of a row
WriteRows(tbl, writes) ==
    [r \in DOMAIN tbl \cup DOMAIN writes |->
        IF r \notin DOMAIN writes THEN tbl[r]
        ELSE IF r \notin DOMAIN tbl THEN writes[r]
        ELSE [c \in DOMAIN tbl[r] |->
                 IF c \in DOMAIN writes[r] THEN writes[r][c] ELSE tbl[r][c]]]

\* variant: the connection commits every statement as it is sent
flush_Autocommit(s) ==
    LET w == sessions[s]
        id == w.order[w.flushed + 1]
        row == [r \in {id} |-> w.writes[id]]
    IN /\ IsOpen(s)
       /\ w.flushed < Len(w.order)
       /\ sessions' = [sessions EXCEPT ![s].flushed = w.flushed + 1]
       /\ IF w.table = "documents"
          THEN docs' = WriteRows(docs, row) /\ UNCHANGED templates
          ELSE templates' = WriteRows(templates, row) /\ UNCHANGED docs
       /\ UNCHANGED <<userVars, nextDoc, nextTemplate, categories, tokenVars, resp>>

\* Repository.create / update: db.add, db.flush, db.refresh; the statement
\* goes to the open transaction
flush(s) ==
    LET w == sessions[s]
    IN /\ IsOpen(s)
       /\ w.flushed < Len(w.order)
       /\ sessions' = [sessions EXCEPT ![s].flushed = w.flushed + 1]
       /\ UNCHANGED <<userVars, docVars, libVars, tokenVars, resp>>

\* await db.commit() once everything was flushed, and the answer
commit(s) ==
    LET w == sessions[s]
    IN /\ IsOpen(s)
       /\ w.flushed = Len(w.order)
       /\ sessions' = [sessions EXCEPT ![s].pc = "committed"]
       /\ IF w.table = "documents"
          THEN /\ docs' = WriteRows(docs, w.writes)
               /\ UNCHANGED <<templates, categories>>
          ELSE /\ templates' = WriteRows(templates, w.writes)
               /\ categories' = categories \cup
                     {w.writes[t].category : t \in DOMAIN w.writes}
               /\ UNCHANGED docs
       /\ resp' = IF w.op = "update_document"
                  THEN Serialized(w.op, w.req, w.status, docs', w.req.document_id)
                  ELSE Response(w.op, w.req, w.status, "")
       /\ UNCHANGED <<userVars, nextDoc, nextTemplate, tokenVars>>

\* get_db: an exception raised while the handler runs (the store refusing a
\* statement, the connection dropping) rolls the transaction back
rollback(s) ==
    /\ IsOpen(s)
    /\ sessions' = [sessions EXCEPT ![s].pc = "rolled_back"]
    /\ resp' = Response(sessions[s].op, sessions[s].req, 500, "Internal Server Error")
    /\ UNCHANGED <<userVars, docVars, libVars, tokenVars>>

\* the ids next, next+1, ... of n rows in creation order
NewIds(next, n) == [i \in 1..n |-> next + i - 1]

\* create_document_from_template up to its first flush: the checks, and the
\* rows the recursion will add
open_document_from_template(s, u, p, template_id, rank) ==
    LET req == [user |-> u, project_id |-> p, template_id |-> template_id]
        gate == ProjectGate(u, p)
        op == "create_document_from_template"
    IN IF gate # 0 THEN Reject(op, req, gate, GateDetail(gate))
       ELSE IF template_id \notin DOMAIN templates
       THEN Reject(op, req, 404, "Template not found")
       ELSE IF ~CanAccess(u, templates[template_id])
       THEN Reject(op, req, 403, "Cannot access this template")
       ELSE LET new == DocumentsFromTemplate(template_id, p, rank)
                n == Cardinality(DOMAIN new)
            IN /\ nextDoc + n - 1 <= MaxDocs
               /\ sessions' = WithSession(s, Session(op, req, 201, "documents", new,
                                                     NewIds(nextDoc, n)))
               /\ nextDoc' = nextDoc + n
               /\ UNCHANGED <<userVars, docs, libVars, tokenVars, resp>>

\* create_template up to its first flush
open_template(s, u, payload, rank) ==
    LET req == [user |-> u, document_id |-> payload.document_id,
                include_children |-> payload.include_children]
        document_id == payload.document_id
        op == "create_template"
    IN IF document_id \notin DOMAIN docs
       THEN Reject(op, req, 404, "Document not found")
       ELSE IF projects[docs[document_id].project_id] \notin teams(u)
       THEN Reject(op, req, 403, "Not a member of this document's project team")
       ELSE IF payload.include_children /\ HasCycleBelow(docs, document_id)
       THEN Reject(op, req, 500, "RecursionError")
       ELSE LET new == TemplatesFromDocument(document_id, payload, u, rank)
                n == Cardinality(DOMAIN new)
            IN /\ nextTemplate + n - 1 <= MaxTemplates
               /\ sessions' = WithSession(s, Session(op, req, 201, "templates", new,
                                                     NewIds(nextTemplate, n)))
               /\ nextTemplate' = nextTemplate + n
               /\ UNCHANGED <<userVars, docVars, templates, categories, tokenVars, resp>>

\* GET /api/v1/projects/{project_id}/documents/ ; the answer's result is the
\* set of the documents listed
list_documents(u, p) ==
    LET req == [user |-> u, project_id |-> p]
        gate == ProjectGate(u, p)
    IN IF gate # 0 THEN Reject("list_documents", req, gate, GateDetail(gate))
       ELSE IF \E d \in Range(list_for_project(p)) : is_archived(docs, d) = "RecursionError"
       THEN Reject("list_documents", req, 500, "RecursionError")
       ELSE /\ resp' = [op |-> "list_documents", info |-> req, status |-> 200,
                        detail |-> "", result |-> Range(list_for_project(p))]
            /\ UNCHANGED <<userVars, docVars, libVars, tokenVars, sessions>>

\* update_document up to its flush: the checks, and the document object
\* with the payload's fields assigned
open_update_document(s, u, p, document_id, payload) ==
    LET req == [document_id |-> document_id, set |-> payload.set,
                parent_id |-> payload.parent_id]
        gate == ProjectGate(u, p)
        op == "update_document"
    IN IF gate # 0 THEN Reject(op, req, gate, GateDetail(gate))
       ELSE IF document_id \notin DOMAIN docs \/ docs[document_id].project_id # p
       THEN Reject(op, req, 404, "Document not found")
       ELSE IF /\ "parent_id" \in payload.set
               /\ ParentCheck(p, document_id, payload.parent_id) # ""
       THEN Reject(op, req, 400, ParentCheck(p, document_id, payload.parent_id))
       ELSE /\ sessions' = WithSession(s,
                  Session(op, req, 200, "documents",
                          [r \in {document_id} |-> UpdatedDocument(docs[document_id], payload)],
                          <<document_id>>))
            /\ UNCHANGED <<userVars, docVars, libVars, tokenVars, resp>>

\* a tool of execute_tool up to its first commit: the lookups and checks on
\* the rows it reads, and the objects it assigns to (edit_document: the
\* document; get_document: the documents of the chain whose images it
\* saves, root first; create_document: the new row)
open_tool(s, project_id, tool_name, arguments) ==
    LET req == [project_id |-> project_id, name |-> tool_name, arguments |-> arguments]
        out == execute_tool(tool_name, arguments, project_id)
        ids == {d \in DOMAIN out.docs : d \notin DOMAIN docs \/ out.docs[d] # docs[d]}
                  \cup (IF tool_name = "edit_document" THEN {arguments.document_id} ELSE {})
        order == IF tool_name = "get_document"
                 THEN ChainSeq(docs, arguments.id, Cardinality(DOMAIN docs))
                 ELSE IF tool_name = "edit_document" THEN <<arguments.document_id>>
                 ELSE NewIds(nextDoc, out.nextDoc - nextDoc)
    IN IF out.kind # "result"
       THEN Reject(tool_name, req, IF out.kind = "hang" THEN 0 ELSE 200, out.message)
       ELSE /\ out.nextDoc <= MaxDocs + 1
            /\ sessions' = WithSession(s,
                  Session(tool_name, req, 200, "documents",
                          [r \in ids |-> out.docs[r]], order))
            /\ nextDoc' = out.nextDoc
            /\ UNCHANGED <<userVars, docs, libVars, tokenVars, resp>>

\* get_document_tool's loop: doc.content = json.dumps(content), db.commit()
\* and db.refresh(doc) for one document of the chain after the other
commit_each(s) ==
    LET w == sessions[s]
        id == w.order[w.flushed + 1]
    IN /\ IsOpen(s)
       /\ w.flushed < Len(w.order)
       /\ docs' = WriteRows(docs, [r \in {id} |-> w.writes[id]])
       /\ sessions' = [sessions EXCEPT
                          ![s].flushed = w.flushed + 1,
                          ![s].writes = [r \in DOMAIN w.writes \ {id} |-> w.writes[r]]]
       /\ UNCHANGED <<userVars, nextDoc, libVars, tokenVars, resp>>

\* -------------------------------- specification: conversions in progress
\* Project p1 holds a document with one child.  u1 turns it into templates
\* (with or without the child) and instantiates committed templates into
\* p2, up to MaxSessions requests in flight at a time advancing statement by
\* statement and failing at any point, while u1 lists the documents of p2
\* and the library.
InitTxn ==
    /\ projects = InitProjects
    /\ members = InitMembers
    /\ invitations = Empty
    /\ sessions = Empty
    /\ docs = [d \in {1, 2} |->
                 Document("doc", "p1", "markdown", DefaultContent,
                          IF d = 2 THEN 1 ELSE NULL, 0, FALSE)]
    /\ nextDoc = 3
    /\ templates = Empty
    /\ nextTemplate = 1
    /\ categories = {}
    /\ tokens = Empty
    /\ nextToken = 1
    /\ resp = NoResponse

TxnOpenTemplate ==
    \E s \in Slots \ DOMAIN sessions, include_children \in BOOLEAN :
        open_template(s, "u1",
                      [document_id |-> 1, include_children |-> include_children,
                       name |-> "tpl", category_name |-> "c1", visibility |-> "team"],
                      [d \in DOMAIN docs |-> d])

TxnOpenDocumentFromTemplate ==
    \E s \in Slots \ DOMAIN sessions, t \in DOMAIN templates :
        /\ templates[t].parent_id = NULL
        /\ open_document_from_template(s, "u1", "p2", t, [x \in DOMAIN templates |-> x])

TxnFlush == \E s \in DOMAIN sessions : flush(s)

TxnCommit == \E s \in DOMAIN sessions : commit(s)

TxnRollback == \E s \in DOMAIN sessions : rollback(s)

TxnListDocuments == list_documents("u1", "p2")

TxnListTemplates == list_templates("u1", "", FALSE)

NextTxn ==
    \/ TxnOpenTemplate
    \/ TxnOpenDocumentFromTemplate
    \/ TxnFlush
    \/ TxnCommit
    \/ TxnRollback
    \/ TxnListDocuments
    \/ TxnListTemplates

SpecTxn == InitTxn /\ [][NextTxn]_vars

\* ---------------------------------------------------------------- claim C22
\* what the last request saw of a table, if it was a listing of that table
Observed(table) ==
    IF table = "documents" /\ resp.op = "list_documents" /\ resp.status = 200
    THEN resp.result
    ELSE IF table = "templates" /\ resp.op = "list_templates" THEN resp.result
    ELSE {}

\* C22: a request that lists documents or templates sees, of the nodes a
\* conversion writes, none while the conversion is in progress or after it
\* failed, and otherwise either none or all of them.
C22_NoPartialTree ==
    \A s \in DOMAIN sessions :
        LET new == DOMAIN sessions[s].writes
            seen == Observed(sessions[s].table) \cap new
        IN /\ seen = {} \/ seen = new
           /\ sessions[s].pc # "committed" => seen = {}

\* a listing of the library made after a conversion of a document and its
\* child was committed, both templates on it, while a second conversion has
\* sent its template and not committed
C22_Witness ==
    \E s, t \in DOMAIN sessions :
        /\ resp.op = "list_templates"
        /\ sessions[t].pc = "committed"
        /\ Cardinality(DOMAIN sessions[t].writes) = 2
        /\ DOMAIN sessions[t].writes \subseteq resp.result
        /\ sessions[s].pc = "open"
        /\ sessions[s].table = "templates"
        /\ sessions[s].flushed = 1
        /\ resp.result \cap DOMAIN sessions[s].writes = {}

\* -------------------------------------------- specification: traversals
\* u1 creates documents in p1 and moves them under each other, turns them
\* into templates with their children, instantiates templates into p2, and
\* the agent reads documents of p1 with get_document.
WalkCreateDocument ==
    \E payload \in {x \in TreeCreatePayloads : x.parent_id \in {NULL} \cup DOMAIN docs} :
        /\ nextDoc <= MaxTreeDocs
        /\ create_document("u1", "p1", payload)

WalkUpdateDocument ==
    \E d \in DOMAIN docs, parent \in DOMAIN docs \cup {NULL} :
        /\ docs[d].project_id = "p1"
        /\ update_document("u1", "p1", d,
              [set |-> {"parent_id"}, name |-> "doc", content |-> DefaultContent,
               parent_id |-> parent, order |-> 0, editable_by_agent |-> FALSE])

WalkCreateTemplate ==
    \E d \in DOMAIN docs :
        /\ docs[d].project_id = "p1"
        /\ create_template("u1",
              [document_id |-> d, include_children |-> TRUE, name |-> "tpl",
               category_name |-> "c1", visibility |-> "team"],
              [x \in DOMAIN docs |-> x])

WalkCreateDocumentFromTemplate ==
    \E t \in DOMAIN templates :
        /\ nextDoc <= MaxTreeDocs + 1
        /\ create_document_from_template("u1", "p2", t, [x \in DOMAIN templates |-> x])

WalkGetDocument ==
    \E d \in DOMAIN docs :
        mcp_endpoint(AgentHeader, "p1", "application/json",
                     Request(7, "tools/call", "get_document",
                             Arguments(d, BadUuid, "", "", <<>>)))

NextWalk ==
    \/ WalkCreateDocument
    \/ WalkUpdateDocument
    \/ WalkCreateTemplate
    \/ WalkCreateDocumentFromTemplate
    \/ WalkGetDocument

SpecWalk == InitAgent /\ [][NextWalk]_vars

\* ---------------------------------------------------------------- claim C23
\* C23: in every state reachable through the API each tree traversal
\* returns: the get_document ancestor walk gets its answer, and neither
\* conversion nor the inherited-archived computation of a document answer
\* ends in unbounded recursion.
C23_TraversalsReturn ==
    [][/\ ~(resp'.op = "mcp" /\ resp'.status = 0)
       /\ resp'.detail # "RecursionError"]_vars

\* ------------------------------------------ specification: concurrent edits
\* Project p1 holds one markdown document the agent may edit.  Up to
\* MaxSessions requests edit it, through the REST route (u1) and through the
\* edit_document tool, each submitting either the text the document was
\* created with or a new text, their statements interleaved.
InitEdit ==
    /\ projects = InitProjects
    /\ members = InitMembers
    /\ invitations = Empty
    /\ sessions = Empty
    /\ docs = [d \in {1} |->
                 Document("doc", "p1", "markdown", DefaultContent, NULL, 0, TRUE)]
    /\ nextDoc = 2
    /\ templates = Empty
    /\ nextTemplate = 1
    /\ categories = {}
    /\ tokens = Empty
    /\ nextToken = 1
    /\ resp = NoResponse

EditTexts == {<<Txt(0)>>, <<Txt(1)>>}

EditOpenUpdateDocument ==
    \E s \in Slots \ DOMAIN sessions, m \in EditTexts, set \in {{"content"}, {"name"}} :
        open_update_document(s, "u1", "p1", 1,
            [set |-> set, name |-> "new", content |-> Content("markdown", m, <<>>),
             parent_id |-> NULL, order |-> 0, editable_by_agent |-> FALSE])

EditOpenTool ==
    \E s \in Slots \ DOMAIN sessions, m \in EditTexts :
        open_tool(s, "p1", "edit_document", Arguments(BadUuid, 1, "", "", m))

EditFlush == \E s \in DOMAIN sessions : flush(s)

EditCommit == \E s \in DOMAIN sessions : commit(s)

NextEdit ==
    \/ EditOpenUpdateDocument
    \/ EditOpenTool
    \/ EditFlush
    \/ EditCommit

SpecEdit == InitEdit /\ [][NextEdit]_vars

\* ---------------------------------------------------------------- claim C24
\* session s was in flight at the same time as another session
Overlapped(s) ==
    \/ sessions[s].with # {}
    \/ \E t \in DOMAIN sessions : s \in sessions[t].with

\* session s is an edit of the content of document d
EditsContentOf(s, d) ==
    /\ d \in DOMAIN sessions[s].assigned
    /\ \/ sessions[s].op = "edit_document"
       \/ sessions[s].op = "update_document" /\ "content" \in sessions[s].req.set

\* C24: when edit requests on the same document are handled concurrently
\* and succeed, the stored content after each commit is the content that
\* request wrote, so the final content is that of the request that
\* committed last.
C24_LastCommitWins ==
    [][\A s \in DOMAIN sessions : \A d \in DOMAIN docs :
          (/\ sessions[s].pc = "open"
           /\ sessions'[s].pc = "committed"
           /\ Overlapped(s)
           /\ EditsContentOf(s, d))
          => docs'[d].content = sessions[s].assigned[d].content]_vars

\* ---------------------------------------------------------------- claim C25
\* C25: a conversion of an unchanged source gives the same sibling order
\* every time, also when source siblings share a stored order value.  Two
\* conversions of one source differ only in the order in which the store
\* hands the children to the handler (rank), so the claim says that the
\* rows a conversion adds are the rows every other rank would have given.
\* Checked under SpecConvert, where the two children start with order 0.
C25_RepeatableOrder ==
    [][/\ (resp'.op = "create_template" /\ resp'.status = 201) =>
            LET d == resp'.info.document_id
                root == templates'[nextTemplate]
                payload == [document_id |-> d,
                            include_children |-> resp'.info.include_children,
                            name |-> root.name, category_name |-> root.category,
                            visibility |-> root.visibility]
                new == DOMAIN templates' \ DOMAIN templates
            IN \A rank \in RowOrders(DescendantRows(docs, d)) :
                   [t \in new |-> templates'[t]]
                       = TemplatesFromDocument(d, payload, resp'.info.user, rank)
       /\ (resp'.op = "create_document_from_template" /\ resp'.status = 201) =>
            LET t == resp'.info.template_id
                new == DOMAIN docs' \ DOMAIN docs
            IN \A rank \in RowOrders(DescendantRows(templates, t)) :
                   [d \in new |-> docs'[d]]
                       = DocumentsFromTemplate(t, resp'.info.project_id, rank)]_vars

\* the same statement for source siblings with distinct order values only
C25_RepeatableWithoutTies ==
    [][(/\ resp'.op = "create_template" /\ resp'.status = 201
        /\ \A a, b \in Descendants(docs, resp'.info.document_id) :
               (a # b /\ docs[a].parent_id = docs[b].parent_id)
                   => docs[a].order # docs[b].order) =>
            LET d == resp'.info.document_id
                root == templates'[nextTemplate]
                payload == [document_id |-> d,
                            include_children |-> resp'.info.include_children,
                            name |-> root.name, category_name |-> root.category,
                            visibility |-> root.visibility]
                new == DOMAIN templates' \ DOMAIN templates
            IN \A rank \in RowOrders(DescendantRows(docs, d)) :
                   [t \in new |-> templates'[t]]
                       = TemplatesFromDocument(d, payload, resp'.info.user, rank)]_vars

\* --------------------------------------------- specification: reparenting
\* Project p1 holds the roots 1 and 2 and a child 3 of 2.  u1 sends PUTs
\* that move document 1 or 2 below another document or back to the root;
\* up to MaxSessions of them are in flight, each checked against the
\* committed rows it read.
MoveDocs ==
    [d \in {1, 2, 3} |->
        Document("doc", "p1", "markdown", DefaultContent,
                 IF d = 3 THEN 2 ELSE NULL, 0, FALSE)]

InitMove ==
    /\ projects = InitProjects
    /\ members = InitMembers
    /\ invitations = Empty
    /\ sessions = Empty
    /\ docs = MoveDocs
    /\ nextDoc = 4
    /\ templates = Empty
    /\ nextTemplate = 1
    /\ categories = {}
    /\ tokens = Empty
    /\ nextToken = 1
    /\ resp = NoResponse

MoveOpenUpdateDocument ==
    \E s \in Slots \ DOMAIN sessions, document_id \in {1, 2},
       parent_id \in {NULL, 1, 2, 3} :
        open_update_document(s, "u1", "p1", document_id,
            [set |-> {"parent_id"}, name |-> "doc", content |-> DefaultContent,
             parent_id |-> parent_id, order |-> 0, editable_by_agent |-> FALSE])

MoveFlush == \E s \in DOMAIN sessions : flush(s)

MoveCommit == \E s \in DOMAIN sessions : commit(s)

MoveRollback == \E s \in DOMAIN sessions : rollback(s)

NextMove ==
    \/ MoveOpenUpdateDocument
    \/ MoveFlush
    \/ MoveCommit
    \/ MoveRollback

SpecMove == InitMove /\ [][NextMove]_vars

\* ---------------------------------------------------------------- claim C26
Acyclic(tbl) == \A n \in DOMAIN tbl : ReachesRoot(tbl, n, Cardinality(DOMAIN tbl))

Committed == {s \in DOMAIN sessions : sessions[s].pc = "committed"}

\* s and t were in flight at the same time
Overlap(s, t) == s \in sessions[t].with \/ t \in sessions[s].with

\* the reparent of s leaves the rows it read, those of MoveDocs, acyclic
ValidAlone(s) == Acyclic(WriteRows(MoveDocs, sessions[s].writes))

\* C26: of two overlapping reparent requests, each valid against the rows it
\* read, whose combined effect closes a cycle, at most one commits.  While
\* the two are the only requests that have committed, the rows both read
\* are those of MoveDocs, so the claim says that no such pair is committed.
C26_AtMostOneCommits ==
    \A s, t \in DOMAIN sessions :
        (/\ s # t
         /\ Committed = {s, t}
         /\ Overlap(s, t)
         /\ ValidAlone(s)
         /\ ValidAlone(t))
        => Acyclic(WriteRows(WriteRows(MoveDocs, sessions[s].writes),
                             sessions[t].writes))

\* ------------------------------------- specification: reading while editing
\* Project p1 holds an editable markdown document with an embedded image
\* and an editable child with another.  Agents read either document with
\* get_document and edit either with edit_document; up to MaxSessions calls
\* are in flight.  get_document commits after every document it rewrites,
\* edit_document once at its end.
InitReadDocs ==
    [d \in {1, 2} |->
        Document("doc", "p1", "markdown", Content("markdown", <<Img(d)>>, <<>>),
                 IF d = 2 THEN 1 ELSE NULL, 0, TRUE)]

InitRead ==
    /\ projects = InitProjects
    /\ members = InitMembers
    /\ invitations = Empty
    /\ sessions = Empty
    /\ docs = InitReadDocs
    /\ nextDoc = 3
    /\ templates = Empty
    /\ nextTemplate = 1
    /\ categories = {}
    /\ tokens = Empty
    /\ nextToken = 1
    /\ resp = NoResponse

ReadOpenGetDocument ==
    \E s \in Slots \ DOMAIN sessions, d \in DOMAIN docs :
        open_tool(s, "p1", "get_document", Arguments(d, BadUuid, "", "", <<>>))

ReadOpenEditDocument ==
    \E s \in Slots \ DOMAIN sessions, d \in DOMAIN docs :
        open_tool(s, "p1", "edit_document", Arguments(BadUuid, d, "", "", <<Txt(1)>>))

ReadCommitEach ==
    \E s \in DOMAIN sessions : sessions[s].op = "get_document" /\ commit_each(s)

ReadFlush ==
    \E s \in DOMAIN sessions : sessions[s].op # "get_document" /\ flush(s)

ReadCommit == \E s \in DOMAIN sessions : commit(s)

NextRead ==
    \/ ReadOpenGetDocument
    \/ ReadOpenEditDocument
    \/ ReadCommitEach
    \/ ReadFlush
    \/ ReadCommit

SpecRead == InitRead /\ [][NextRead]_vars

\* ---------------------------------------------------------------- claim C27
\* the edit e of document d committed while the get_document call g, whose
\* chain holds d, was being handled, and nothing else has committed
EditedDuring(g, e, d) ==
    /\ IsOpen(g) /\ sessions[g].op = "get_document"
    /\ e \in DOMAIN sessions /\ sessions[e].op = "edit_document"
    /\ sessions[e].pc = "committed"
    /\ {s \in DOMAIN sessions : sessions[s].pc = "committed"} = {e}
    /\ sessions[e].req.arguments.document_id = d
    /\ d \in Range(ChainSeq(docs, sessions[g].req.arguments.id,
                            Cardinality(DOMAIN docs)))

\* C27: when an edit to a document of the chain commits while get_document
\* is being handled, the document's stored markdown after both have
\* completed is the edited markdown.  Stated at the step that completes
\* the get_document call.
C27_ReadKeepsEdit ==
    [][\A g, e \in DOMAIN sessions : \A d \in DOMAIN docs :
          (/\ EditedDuring(g, e, d)
           /\ sessions'[g].pc = "committed")
          => docs'[d].content.val = sessions[e].assigned[d].content.val]_vars

InitCrossDocs ==
    [d \in {1, 2} |->
        Document("doc", IF d = 1 THEN "p1" ELSE "p2", "markdown",
                 Content("markdown", <<Img(d)>>, <<>>), NULL, 0, TRUE)]

InitCross ==
    /\ projects = InitProjects
    /\ members = InitMembers
    /\ invitations = Empty
    /\ sessions = Empty
    /\ docs = InitCrossDocs
    /\ nextDoc = 3
    /\ templates = Empty
    /\ nextTemplate = 1
    /\ categories = {}
    /\ tokens = [t \in {1} |-> ApiToken("u1")]
    /\ nextToken = 2
    /\ resp = NoResponse

CrossCreateDocument ==
    /\ nextDoc <= MaxCrossDocs
    /\ \E p \in {"p1", "p2"}, parent_id \in {NULL, 1, 2} :
          create_document("u1", p,
              [name |-> "sub", type |-> "markdown", content |-> DefaultContent,
               parent_id |-> parent_id])

CrossUpdateDocument ==
    \E d \in DOMAIN docs, parent_id \in {NULL, 1, 2} :
        update_document("u1", docs[d].project_id, d,
            [set |-> {"parent_id"}, name |-> "doc", content |-> DefaultContent,
             parent_id |-> parent_id, order |-> 0, editable_by_agent |-> FALSE])

CrossCalls ==
    {<<"list_documents", NoArguments>>,
     <<"search_documents", SearchArguments("sub")>>,
     <<"create_document", Arguments(BadUuid, BadUuid, "doc", "markdown", <<Txt(1)>>)>>}
    \cup {<<"get_document", Arguments(d, BadUuid, "", "", <<>>)>> : d \in DOMAIN docs}
    \cup {<<"edit_document", Arguments(BadUuid, d, "", "", <<Txt(1)>>)>> :
            d \in {1, 2}}

CrossMcpPost ==
    \E p \in {"p1", "p2"}, c \in CrossCalls :
        /\ (c[1] = "create_document") => nextDoc <= MaxCrossDocs
        /\ mcp_endpoint(AgentHeader, p, "application/json",
                        Request(7, "tools/call", c[1], c[2]))

NextCross ==
    \/ CrossCreateDocument
    \/ CrossUpdateDocument
    \/ CrossMcpPost

SpecCross == InitCross /\ [][NextCross]_vars

\* ---------------------------------------------------------------- claim C29
\* the documents whose name or content the answer r carries
Returned(r) ==
    IF r.op # "mcp" \/ r.rpc.kind # "result" THEN {}
    ELSE IF r.info.body.name = "list_documents"
    THEN {n.id : n \in Range(ListedNodes(r.rpc.content, NULL))}
    ELSE IF r.info.body.name \in {"search_documents", "get_document"}
    THEN Range(r.rpc.content)
    ELSE {}

\* C29: a tools/call request addressed to project P returns the name or
\* content of documents of P only and creates or changes documents of P
\* only, the ancestors walked by get_document included.
C29_StaysInProject ==
    [][resp'.op = "mcp" =>
          LET P == resp'.info.project_id
          IN /\ \A d \in Returned(resp') :
                    d \in DOMAIN docs /\ docs[d].project_id = P
             /\ DOMAIN docs \subseteq DOMAIN docs'
             /\ \A d \in DOMAIN docs' :
                    (d \notin DOMAIN docs \/ docs'[d] # docs[d])
                    => /\ docs'[d].project_id = P
                       /\ d \in DOMAIN docs => docs[d].project_id = P]_vars

\* C29 witness: get_document on p1 walked from a child to its parent and
\* returned both, while a PUT had been refused a parent in the other project
\* before; the document of p2 is as it was
C29_Witness ==
    /\ resp.op = "mcp"
    /\ resp.info.project_id = "p1"
    /\ resp.rpc.kind = "result"
    /\ resp.info.body.name = "get_document"
    /\ resp.rpc.content = <<1, 3>>
    /\ docs[1].content.images = <<1>>
    /\ docs[2] = InitCrossDocs[2]

\* ------------------------------------------ specification: template owners
\* The library of SpecLib's teams: u1 and u2 share team t2, u1 alone is in
\* t1.  Both users turn documents into templates of every visibility, and
\* both send GET, PUT and DELETE for every template.
OwnUpdatePayloads ==
    [set : {{"name"}, {"content"}, {"category_name"}}, name : {"new"},
     content : {Content("markdown", <<Txt(1)>>, <<>>)}, category_name : {"c3"}]

OwnCreateTemplate ==
    /\ nextTemplate <= MaxLibTemplates
    /\ \E u \in Users, document_id \in {1, 3},
          visibility \in {"private", "team", "public"} :
          create_template(u, [document_id |-> document_id, include_children |-> FALSE,
                              name |-> "tpl", category_name |-> "c1",
                              visibility |-> visibility],
                          [d \in DOMAIN docs |-> d])

OwnUpdateTemplate ==
    \E u \in Users, t \in DOMAIN templates, payload \in OwnUpdatePayloads :
        update_template(u, t, payload)

OwnDeleteTemplate ==
    \E u \in Users, t \in DOMAIN templates : delete_template(u, t)

OwnGetTemplate ==
    \E u \in Users, t \in DOMAIN templates : get_template(u, t)

NextOwn ==
    \/ OwnCreateTemplate
    \/ OwnUpdateTemplate
    \/ OwnDeleteTemplate
    \/ OwnGetTemplate

SpecOwn == InitLib /\ [][NextOwn]_vars

\* ---------------------------------------------------------------- claim C30
\* C30: a user for whom GET of a template answers 403 (the template is
\* stored and the visibility rule denies the user) can neither change nor
\* remove it: no PUT or DELETE of that user for that template alters the
\* stored templates.
C30_WriteNeedsAccess ==
    [][\A u \in Users, t \in DOMAIN templates :
          ~CanAccess(u, templates[t]) =>
             /\ delete_template(u, t) => templates' = templates
             /\ \A payload \in OwnUpdatePayloads :
                   update_template(u, t, payload) => templates' = templates]_vars

\* the same for PUT alone and for DELETE alone
C30_UpdateNeedsAccess ==
    [][\A u \in Users, t \in DOMAIN templates :
          ~CanAccess(u, templates[t]) =>
             \A payload \in OwnUpdatePayloads :
                update_template(u, t, payload) => templates' = templates]_vars

C30_DeleteNeedsAccess ==
    [][\A u \in Users, t \in DOMAIN templates :
          ~CanAccess(u, templates[t]) =>
             (delete_template(u, t) => templates' = templates)]_vars

====
